---- MODULE Spec2Model ----
\* Model of the ELIZA response engine of src/eliza.py (class Chatbot) and of
\* the script data it interprets.
\*
\* Text.  A Python string is modelled as a sequence of symbols.  A symbol is
\* either one of the characters the code tests for (" ", ".", ",", "?", "!",
\* ";", "=") or a run of letters that the code never splits ("my", "MY",
\* "NEWKEY", ...), which stands for the characters of that run.  The empty
\* string is <<>>.  str.upper() maps symbol by symbol.
\*
\* Regular expressions.  The decomposition patterns of the script have the
\* shape  ^.*\bPHRASE (.*)$  or  .*\bPHRASE (A|B|...) (.*)$ ; a pattern is the
\* record [phrase, alts], and re.search / re.sub are computed on symbol
\* sequences by Matches / re_sub below (greedy, case-insensitive).
EXTENDS Integers, Sequences, FiniteSets, TLC

\* ------------------------------------------------------------------ bounds
\* longest memory stack a call may leave behind
MaxMem == 2
\* number of rule lookups of one call that the lookup log records
MaxLog == 6

\* ------------------------------------------------------------- text model
KEYWORD_START == <<>>
KEYWORD_NONE == <<"NONE">>
NEWKEY == <<"NEWKEY">>

\* the characters that get_tokens emits as tokens of their own
Punctuation == {".", ",", "?", "!", ";"}

\* \w of the regular expressions: every symbol that is a run of letters
IsWordSym(c) == c \notin (Punctuation \cup {" ", "\t", "="})

\* str.upper() on the letter runs that occur in inputs and scripts
UpperPairs ==
    { <<"no", "NO">>, <<"No", "NO">>, <<"my", "MY">>, <<"My", "MY">>,
      <<"dont", "DONT">>, <<"Dont", "DONT">>, <<"don't", "DON'T">>,
      <<"your", "YOUR">>, <<"mother", "MOTHER">>, <<"father", "FATHER">>,
      <<"sister", "SISTER">>, <<"brother", "BROTHER">>, <<"wife", "WIFE">>,
      <<"children", "CHILDREN">>, <<"dog", "DOG">>, <<"is", "IS">>,
      <<"nice", "NICE">>, <<"xyz", "XYZ">>, <<"none", "NONE">>,
      <<"mykeyword", "MYKEYWORD">>, <<"Your", "YOUR">>, <<"you", "YOU">>,
      <<"You", "YOU">>, <<"not", "NOT">>, <<"Why", "WHY">>,
      <<"a", "A">>, <<"b", "B">>, <<"c", "C">>, <<"d", "D">>, <<"e", "E">>,
      <<"f", "F">>, <<"g", "G">>, <<"h", "H">>, <<"m", "M">>, <<"p", "P">>,
      <<"q", "Q">>, <<"v", "V">>,
      <<"k", "K">>, <<"n", "N">>, <<"r", "R">>, <<"t", "T">>, <<"w", "W">>, <<"x", "X">>, <<"y", "Y">> }

\* the pairs as a mapping
UpperMap ==
    [c \in {p[1] : p \in UpperPairs} |->
        (CHOOSE p \in UpperPairs : p[1] = c)[2]]

UpperSym(c) == IF c \in DOMAIN UpperMap THEN UpperMap[c] ELSE c

upper(s) == [i \in 1..Len(s) |-> UpperSym(s[i])]

RECURSIVE JoinRest(_)
JoinRest(tokens) ==
    IF tokens = <<>> THEN <<>>
    ELSE <<" ">> \o Head(tokens) \o JoinRest(Tail(tokens))

\* " ".join(tokens)
join(tokens) ==
    IF tokens = <<>> THEN <<>> ELSE Head(tokens) \o JoinRest(Tail(tokens))

RECURSIVE SplitAcc(_, _, _)
SplitAcc(text, cur, acc) ==
    IF text = <<>> THEN Append(acc, cur)
    ELSE IF Head(text) \in {".", ","}
         THEN SplitAcc(Tail(text), <<>>, Append(acc, cur))
         ELSE SplitAcc(Tail(text), Append(cur, Head(text)), acc)

\* a segmentation that keeps no empty sentence
get_sentences_nonempty(text) ==
    SelectSeq(SplitAcc(text, <<>>, <<>>), LAMBDA x : x # <<>>)

\* Chatbot._get_sentences: re.split(r'[\.\,]', text)
get_sentences(text) == SplitAcc(text, <<>>, <<>>)

RECURSIVE TokAcc(_, _, _)
TokAcc(text, token, acc) ==
    LET flushed == IF Len(token) > 0 THEN Append(acc, token) ELSE acc
    IN  IF text = <<>> THEN flushed
        ELSE IF Head(text) = " " THEN TokAcc(Tail(text), <<>>, flushed)
        ELSE IF Head(text) \in Punctuation
             THEN TokAcc(Tail(text), <<>>, Append(flushed, <<Head(text)>>))
        ELSE TokAcc(Tail(text), Append(token, Head(text)), acc)

\* Chatbot._get_tokens
get_tokens(text) == TokAcc(text, <<>>, <<>>)

\* ---------------------------------------------------- regular expressions
\* equality under re.IGNORECASE
EqCI(x, y) == upper(x) = upper(y)

\* positions at which  \bPHRASE (  or  \bPHRASE (A|B|..) (  can start in s
MatchStarts(pat, s) ==
    LET n == Len(pat.phrase)
    IN  { i \in 1..Len(s) :
            /\ i + n <= Len(s)
            /\ EqCI(SubSeq(s, i, i + n - 1), pat.phrase)
            /\ s[i + n] = " "
            /\ (i = 1 \/ ~IsWordSym(s[i - 1]))
            /\ pat.alts # {} =>
                 /\ i + n + 2 <= Len(s)
                 /\ \E w \in pat.alts : EqCI(<<s[i + n + 1]>>, <<w>>)
                 /\ s[i + n + 2] = " " }

\* re.search(pattern, s, flags=re.IGNORECASE) is not None
Matches(pat, s) == MatchStarts(pat, s) # {}

\* the leading .* is greedy: the match uses the last possible start
LastStart(starts) == CHOOSE j \in starts : \A l \in starts : l <= j

\* the capture groups of the match that starts at i
Groups(pat, s, i) ==
    LET n == Len(pat.phrase)
    IN  IF pat.alts = {}
        THEN << SubSeq(s, i + n + 1, Len(s)) >>
        ELSE << <<s[i + n + 1]>>, SubSeq(s, i + n + 3, Len(s)) >>

RECURSIVE Expand(_, _)
\* the replacement template with its back-references \1, \2 filled in
Expand(template, groups) ==
    IF template = <<>> THEN <<>>
    ELSE (IF Head(template) = "\\1" THEN groups[1]
          ELSE IF Head(template) = "\\2" THEN groups[2]
          ELSE <<Head(template)>>) \o Expand(Tail(template), groups)

\* s with its match (the patterns span the whole string) replaced by repl
SubAt(pat, repl, s, starts) ==
    IF starts = {} THEN s ELSE Expand(repl, Groups(pat, s, LastStart(starts)))

\* re.sub(pattern, repl, s, flags=re.IGNORECASE)
re_sub(pat, repl, s) == SubAt(pat, repl, s, MatchStarts(pat, s))

\* resp.startswith("=")
startswith_eq(resp) == Len(resp) > 0 /\ resp[1] = "="

\* ------------------------------------------------------------ script data
\* A keyword entry is a record with the optional fields rank, subst (the
\* key "=" of the source), rules and memory; a rule is a record with the
\* field reassembly and the optional fields decomposition and pre.
\* script[KEYWORD_START]
ScriptSTART ==
    [rules |-> << [reassembly |-> << <<"How", " ", "do", " ", "you", " ", "do", ".", " ", "Please", " ", "tell", " ", "me", " ", "your", " ", "problem">> >>] >>]

\* script[KEYWORD_NONE]
ScriptNONE ==
    [rules |-> << [reassembly |->
        << <<"I", " ", "am", " ", "not", " ", "sure", " ", "I", " ", "understand", " ", "you", " ", "fully">>,
           <<"Please", " ", "go", " ", "on">>,
           <<"What", " ", "does", " ", "that", " ", "suggest", " ", "to", " ", "you">>,
           <<"Do", " ", "you", " ", "feel", " ", "strongly", " ", "about", " ", "discussing", " ", "such", " ", "things">> >>] >>]

\* script["DONT"] = {"=": "don't"}
ScriptDONT == [subst |-> <<"don't">>]

\* script["NO"]
ScriptNO ==
    [rank |-> 0,
     rules |-> << [reassembly |->
        << <<"Are", " ", "you", " ", "saying", " ", "'no'", " ", "just", " ", "to", " ", "be", " ", "negative">>,
           <<"You", " ", "are", " ", "being", " ", "a", " ", "bit", " ", "negative">>,
           <<"Why", " ", "not">>,
           <<"Why", " ", "'no'">> >>] >>]

\* script["MY"]: "=" is the field subst; the decompositions are
\*   rf".*\byour ({tags['/FAMILY']}) (.*)$"  and  r"^.*\byour (.*)$"
ScriptMY ==
    [subst |-> <<"your">>,
     rank |-> 2,
     rules |-> <<
       [decomposition |-> [phrase |-> <<"your">>, alts |-> {"mother", "father", "sister", "brother", "wife", "children"}, bad |-> FALSE],
        reassembly |->
        << <<"Tell", " ", "me", " ", "more", " ", "about", " ", "your", " ", "family">>,
           <<"Who", " ", "else", " ", "if", " ", "your", " ", "family", " ", "\\2">>,
           <<"Your", " ", "\\1">>,
           <<"What", " ", "else", " ", "comes", " ", "to", " ", "mind", " ", "when", " ", "you", " ", "think", " ", "of", " ", "your", " ", "\\1">> >>],
       [decomposition |-> [phrase |-> <<"your">>, alts |-> {}, bad |-> FALSE],
        reassembly |->
        << <<"Your", " ", "\\1">>,
           <<"Why", " ", "do", " ", "you", " ", "say", " ", "your", " ", "\\1">>,
           <<"Does", " ", "that", " ", "suggest", " ", "anything", " ", "else", " ", "which", " ", "belongs", " ", "to", " ", "you">>,
           <<"Is", " ", "it", " ", "important", " ", "to", " ", "you", " ", "that", " ", "your", " ", "\\1">> >>] >>,
     memory |-> <<
       [decomposition |-> [phrase |-> <<"your">>, alts |-> {}, bad |-> FALSE],
        reassembly |->
        << <<"Lets", " ", "discuss", " ", "further", " ", "why", " ", "your", " ", "\\1">>,
           <<"Earlier", " ", "you", " ", "said", " ", "your", " ", "\\1">>,
           <<"But", " ", "your", " ", "\\1">>,
           <<"Does", " ", "that", " ", "have", " ", "anything", " ", "to", " ", "do", " ", "with", " ", "the", " ", "fact", " ", "that", " ", "your", " ", "\\1">> >>] >>]

\* the module-level script of src/eliza.py, restricted to the entries above
DefaultScript ==
    (KEYWORD_START :> ScriptSTART) @@ (KEYWORD_NONE :> ScriptNONE) @@
    (<<"DONT">> :> ScriptDONT) @@ (<<"NO">> :> ScriptNO) @@
    (<<"MY">> :> ScriptMY)

\* the script of src/blank.py
BlankScript ==
    (KEYWORD_START :>
       [rules |-> << [reassembly |-> << 
           <<"MY", " ", "KEYWORD_START", " ", "ANSWER:", " ", "I'm", " ", "Blank", "!", " ", "Feed", " ", "my", " ", "script", "!">> >>] >>]) @@
    (KEYWORD_NONE :>
       [rules |-> << [reassembly |-> << 
           <<"MY", " ", "KEYWORD_NONE", " ", "ANSWER:", " ", "I'm", " ", "Blank", "!", " ", "Feed", " ", "my", " ", "script", "!">> >>] >>]) @@
    (<<"MYKEYWORD">> :>
       [rank |-> 0,
        rules |-> << [reassembly |-> << <<"MYANSWER">> >>] >>])

\* ------------------------------------------------------ engine operators
\* what _get_rules returns: None, or the list of rules
NoRules == [none |-> TRUE, rules |-> <<>>]

\* the rule returned next to a response: None, or rule i of keyword key
NoRule == [key |-> <<>>, i |-> 0]

\* _get_rules for the uppercased keyword
RulesOf(S, key) ==
    IF key \notin DOMAIN S
    THEN [exc |-> "TypeError", tr |-> NoRules]
    ELSE IF "rules" \notin DOMAIN S[key]
    THEN [exc |-> "", tr |-> NoRules]
    ELSE [exc |-> "", tr |-> [none |-> FALSE, rules |-> S[key].rules]]

\* Chatbot._get_rules; exc is the exception raised by `"rules" in None`
get_rules(S, keyword) == RulesOf(S, upper(keyword))

\* the rules at which the loop of _get_response can stop: those without
\* decomposition or whose decomposition is evaluated with a result other
\* than "no match"
Applicable(rules, s) ==
    { i \in 1..Len(rules) :
        \/ "decomposition" \notin DOMAIN rules[i]
        \/ rules[i].decomposition.bad
        \/ Matches(rules[i].decomposition, s) }

\* the last of them
First_last(hit) ==
    IF hit = {} THEN 0 ELSE CHOOSE i \in hit : \A j \in hit : j <= i

\* the first of them (0 when the loop runs to its end)
First(hit) == IF hit = {} THEN 0 ELSE CHOOSE i \in hit : \A j \in hit : i <= j

FirstRule(rules, s) == First(Applicable(rules, s))

\* a selection that takes the head off the list and does not put it back
Rotate_drop(reassembly) == Tail(reassembly)

\* a rotation of literal templates only
Rotate_literal(reassembly) ==
    IF Head(reassembly) = <<"NEWKEY">> \/ Head(Head(reassembly)) = "="
    THEN reassembly
    ELSE Append(Tail(reassembly), Head(reassembly))

\* a rotation that leaves the list as it is
Rotate_stuck(reassembly) == reassembly

\* resp = rule["reassembly"].pop(0); rule["reassembly"].append(resp)
Rotate(reassembly) == Append(Tail(reassembly), Head(reassembly))

\* return "", None  (or the exception exc)
NoResponse(tr, exc) ==
    [resp |-> <<>>, i |-> 0, trans |-> <<>>, rules |-> tr.rules, exc |-> exc]

\* the body of the loop of _get_response for the rule it stops at
ResponseOf(tr, s, i, rule) ==
    IF "decomposition" \in DOMAIN rule /\ rule.decomposition.bad
    THEN NoResponse(tr, "re.error")
    ELSE IF rule.reassembly = <<>> THEN NoResponse(tr, "IndexError")
    ELSE [resp |-> IF "decomposition" \in DOMAIN rule
                   THEN re_sub(rule.decomposition, Head(rule.reassembly), s)
                   ELSE Head(rule.reassembly),
          i |-> i,
          trans |-> Head(rule.reassembly),
          rules |-> [tr.rules EXCEPT
                        ![i] = [rule EXCEPT !.reassembly = Rotate(@)]],
          exc |-> ""]

ResponseAt(tr, s, i) ==
    IF i = 0 THEN NoResponse(tr, "") ELSE ResponseOf(tr, s, i, tr.rules[i])

\* Chatbot._get_response: resp, the index of the rule used (0 for None), the
\* template selected, the rule list after the rotation, the exception raised
get_response(tr, s) ==
    ResponseAt(tr, s, IF tr.none THEN 0 ELSE FirstRule(tr.rules, s))

\* the script after the rule list `field` of keyword key became rules
SetRules(S, key, field, rules) ==
    IF key \in DOMAIN S /\ field \in DOMAIN S[key]
    THEN [S EXCEPT ![key] = [f \in DOMAIN S[key] |->
                                IF f = field THEN rules ELSE S[key][f]]]
    ELSE S

\* a lookup as the log keeps it
Looked(key, field, r) ==
    << [key |-> key, field |-> field, i |-> r.i, trans |-> r.trans] >>

LookupDone(S, key, r) ==
    [exc |-> r.exc, S |-> SetRules(S, key, "rules", r.rules), resp |-> r.resp,
     i |-> r.i, key |-> key, looked |-> Looked(key, "rules", r)]

LookupIn(S, key, s, g) ==
    IF g.exc # ""
    THEN [exc |-> g.exc, S |-> S, resp |-> <<>>, i |-> 0, key |-> key,
          looked |-> <<>>]
    ELSE LookupDone(S, key, get_response(g.tr, s))

\* keyword_rules = self._get_rules(keyword)
\* resp, rule = self._get_response(keyword_rules, altered_sentence)
lookup(S, keyword, s) == LookupIn(S, upper(keyword), s, get_rules(S, keyword))

\* an insertion that also puts a keyword of equal rank at the front
KeystackInsert_ge(keystack, key, rank) ==
    IF keystack = <<>> THEN << <<key, rank>> >>
    ELSE IF rank >= keystack[1][2] THEN << <<key, rank>> >> \o keystack
    ELSE Append(keystack, <<key, rank>>)

\* the keystack after (key, rank) was detected (lines 856-863)
KeystackInsert(keystack, key, rank) ==
    IF keystack = <<>> THEN << <<key, rank>> >>
    ELSE IF rank > keystack[1][2] THEN << <<key, rank>> >> \o keystack
    ELSE Append(keystack, <<key, rank>>)

\* a scanner that never puts the reserved keyword NONE on the keystack
Detected_reserved(keystack, key, e) ==
    IF "rules" \in DOMAIN e /\ key # <<"NONE">>
    THEN KeystackInsert(keystack, key, IF "rank" \in DOMAIN e THEN e.rank ELSE 0)
    ELSE keystack

\* the keystack after the script entry e of key was seen
Detected(keystack, key, e) ==
    IF "rules" \in DOMAIN e
    THEN KeystackInsert(keystack, key, IF "rank" \in DOMAIN e THEN e.rank ELSE 0)
    ELSE keystack

RECURSIVE ScanAcc(_, _, _, _)
ScanAcc(S, tokens, keystack, altered_tokens) ==
    IF tokens = <<>>
    THEN [keystack |-> keystack, altered_sentence |-> join(altered_tokens)]
    ELSE IF upper(Head(tokens)) \notin DOMAIN S
    THEN ScanAcc(S, Tail(tokens), keystack,
                 Append(altered_tokens, Head(tokens)))
    ELSE ScanAcc(S, Tail(tokens),
                 Detected(keystack, upper(Head(tokens)),
                          S[upper(Head(tokens))]),
                 Append(altered_tokens,
                        IF "subst" \in DOMAIN S[upper(Head(tokens))]
                        THEN S[upper(Head(tokens))].subst
                        ELSE Head(tokens)))

\* a scan that detects the keywords and substitutes nothing
scan_sentence_verbatim(S, tokens) ==
    [keystack |-> ScanAcc(S, tokens, <<>>, <<>>).keystack,
     altered_sentence |-> join(tokens)]

\* Chatbot._scan_sentence; the keystack None is the empty keystack
scan_sentence(S, tokens) == ScanAcc(S, tokens, <<>>, <<>>)

RECURSIVE ScanFrom(_, _, _)
ScanFrom(S, sentences, r) ==
    IF r.keystack # <<>> \/ Len(sentences) = 1 THEN r
    ELSE ScanFrom(S, Tail(sentences),
                  scan_sentence(S, get_tokens(sentences[2])))

\* a loop without the break: the last sentence with a keystack wins
ScanSentences_last(S, sentences) ==
    LET hits == { i \in 1..Len(sentences) :
                    scan_sentence(S, get_tokens(sentences[i])).keystack # <<>> }
    IN  scan_sentence(S, get_tokens(sentences[
            IF hits = {} THEN Len(sentences)
            ELSE CHOOSE i \in hits : \A j \in hits : j <= i]))

\* the loop over all_sentences of __call__ (lines 798-812): the scan of the
\* first sentence with a keystack, else the scan of the last sentence
ScanSentences(S, sentences) ==
    ScanFrom(S, sentences, scan_sentence(S, get_tokens(sentences[1])))

MemoryDone(S, mem, top_keyword, r) ==
    [S |-> SetRules(S, top_keyword, "memory", r.rules),
     mem |-> IF r.exc = "" /\ r.resp # <<>> THEN Append(mem, r.resp) ELSE mem,
     exc |-> r.exc,
     looked |-> Looked(top_keyword, "memory", r)]

MemoryOf(S, mem, top_keyword, altered_sentence) ==
    IF "memory" \in DOMAIN S[top_keyword]
    THEN MemoryDone(S, mem, top_keyword,
                    get_response([none |-> FALSE,
                                  rules |-> S[top_keyword].memory],
                                 altered_sentence))
    ELSE [S |-> S, mem |-> mem, exc |-> "", looked |-> <<>>]

\* a recording that inspects the last keystack entry
add_to_memstack_last(S, mem, keystack, altered_sentence) ==
    MemoryOf(S, mem, upper(keystack[Len(keystack)][1]), altered_sentence)

\* Chatbot._add_to_memstack (lines 878-896) on script S and memory stack mem
add_to_memstack(S, mem, keystack, altered_sentence) ==
    MemoryOf(S, mem, upper(keystack[1][1]), altered_sentence)

FallbackNone(mem, k) ==
    [resp |-> k.resp, S |-> k.S, mem |-> mem, exc |-> k.exc,
     looked |-> k.looked, via |-> "none"]

\* a fallback that takes the newest entry of the memory stack
fallback_response_newest(S, mem, script) ==
    IF Len(mem) > 0
    THEN [resp |-> mem[Len(mem)], S |-> S, mem |-> SubSeq(mem, 1, Len(mem) - 1),
          exc |-> "", looked |-> <<>>, via |-> "memory"]
    ELSE IF KEYWORD_NONE \in DOMAIN script
    THEN FallbackNone(mem, lookup(S, KEYWORD_NONE, <<>>))
    ELSE [resp |-> <<>>, S |-> S, mem |-> mem, exc |-> "", looked |-> <<>>,
          via |-> "none"]

\* a fallback that asks the NONE keyword before the memory stack
fallback_response_none_first(S, mem, script) ==
    IF KEYWORD_NONE \in DOMAIN script
    THEN FallbackNone(mem, lookup(S, KEYWORD_NONE, <<>>))
    ELSE IF Len(mem) > 0
    THEN [resp |-> Head(mem), S |-> S, mem |-> Tail(mem), exc |-> "",
          looked |-> <<>>, via |-> "memory"]
    ELSE [resp |-> <<>>, S |-> S, mem |-> mem, exc |-> "", looked |-> <<>>,
          via |-> "none"]

\* Chatbot._fallback_response (lines 948-968); `script` is the module-level
\* script, S is self._script
fallback_response(S, mem, script) ==
    IF Len(mem) > 0
    THEN [resp |-> Head(mem), S |-> S, mem |-> Tail(mem), exc |-> "",
          looked |-> <<>>, via |-> "memory"]
    ELSE IF KEYWORD_NONE \in DOMAIN script
    THEN FallbackNone(mem, lookup(S, KEYWORD_NONE, <<>>))
    ELSE [resp |-> <<>>, S |-> S, mem |-> mem, exc |-> "", looked |-> <<>>,
          via |-> "none"]

\* ------------------------------------------------------------------ state
\* script objects: 0 is the module-level `script` of src/eliza.py, 1 is a
\* script object of another module (src/blank.py, or a script under test),
\* 1 + a is the object that the constructor of agent a allocates
ModuleScript == 0
CustomObject == 1
Fresh(a) == 1 + a

VARIABLES
    heap,       \* script object id -> script
    ref,        \* agent -> the object self._script refers to
    memstack,   \* agent -> self._memstack
    pc,         \* agent -> position of its current call ("idle" when none)
    loc,        \* agent -> local variables of its current call
    out,        \* agent -> its last finished call: result, origin
    decl,       \* agent -> the script as declared when it was constructed
    nsel,       \* agent -> rule -> selections so far, modulo the list length
    log,        \* agent -> the rule lookups of its current (or last) call
    session     \* the MultiAgentSession over the agents

vars == <<heap, ref, memstack, pc, loc, out, decl, nsel, log, session>>

Agents == DOMAIN ref

\* an assignment self._script = data, which copies nothing
deepcopy_ref_alias(fresh, data) == data

\* copy.deepcopy(data) in Chatbot.__init__: the agent refers to a fresh object
deepcopy_ref(fresh, data) == fresh

\* a call argument: None, or a string
None == [none |-> TRUE, text |-> <<>>]
Msg(text) == [none |-> FALSE, text |-> text]

IdleLoc == [msg |-> None, keystack |-> <<>>, idx |-> 0, sentence |-> <<>>,
            resp |-> <<>>, rule |-> NoRule]

\* out.none tells whether the argument was None; out.via tells where the
\* returned text came from: "start", "engine" (the keystack rules), "memory"
\* or "none" (the two fallbacks), "raise"
NoOut == [kind |-> "none", text |-> <<>>, via |-> "", none |-> FALSE]
Ok(text, via, msg) ==
    [kind |-> "ok", text |-> text, via |-> via, none |-> msg.none]
Raised(exc, msg) ==
    [kind |-> "raise", text |-> <<exc>>, via |-> "raise", none |-> msg.none]

\* return str(resp), or the exception exc propagates
Result(exc, text, via, msg) ==
    IF exc # "" THEN Raised(exc, msg) ELSE Ok(text, via, msg)

\* the rules of script S as triples (keyword, "rules" or "memory", index)
RuleIds(S) ==
    UNION { { <<kf[1], kf[2], i>> : i \in 1..Len(S[kf[1]][kf[2]]) } :
            kf \in { x \in (DOMAIN S) \X {"rules", "memory"} :
                         x[2] \in DOMAIN S[x[1]] } }

RuleAt(S, id) == S[id[1]][id[2]][id[3]]

\* a lookup as the log keeps it: n is the number of earlier selections of the
\* same rule by this agent, modulo the length of its reassembly list, and
\* `at` is the keystack position the call is at when it makes the lookup
Stamp(a, looked) ==
    [j \in 1..Len(looked) |->
        [key |-> looked[j].key, field |-> looked[j].field, i |-> looked[j].i,
         trans |-> looked[j].trans,
         at |-> loc[a].idx,
         n |-> IF looked[j].i > 0
               THEN nsel[a][<<looked[j].key, looked[j].field, looked[j].i>>]
               ELSE 0]]

AppendLog(l, entries) ==
    IF Len(l) + Len(entries) <= MaxLog THEN l \o entries ELSE l

\* a step makes at most one lookup
Counted(a, looked) ==
    IF looked = <<>> \/ looked[1].i = 0 THEN nsel[a]
    ELSE [nsel[a] EXCEPT
            ![<<looked[1].key, looked[1].field, looked[1].i>>] =
               (@ + 1) % Len(RuleAt(decl[a],
                    <<looked[1].key, looked[1].field, looked[1].i>>).reassembly)]

\* MultiAgentSession.__init__ (src/web/eliza/base_eliza.py lines 41-45): the
\* agents of the session are the agents 1..n in this order, so that agent
\* number i of the code (from 0) is agent i + 1.  `at` is the position of
\* next() ("idle" between two calls), k counts the calls of next() made,
\* callee and arg are the agent invoked by the last call of next() and the
\* message passed to it, result is the last value returned by next()
NewSession ==
    [activeAgent |-> 0, message |-> <<>>, at |-> "idle", k |-> 0,
     callee |-> 0, arg |-> <<>>, result |-> <<>>]

\* the state after agent a was constructed with the script object data[a]
\* (`custom` is the script of the custom object)
Constructed(as, data, custom) ==
    /\ heap = [o \in {ModuleScript, CustomObject} \cup {Fresh(a) : a \in as}
                 |-> IF o = ModuleScript THEN DefaultScript
                     ELSE IF o = CustomObject THEN custom
                     ELSE IF data[o - 1] = ModuleScript THEN DefaultScript
                     ELSE custom]
    /\ ref = [a \in as |-> deepcopy_ref(Fresh(a), data[a])]
    /\ decl = [a \in as |-> IF data[a] = ModuleScript THEN DefaultScript
                            ELSE custom]
    /\ nsel = [a \in as |->
                 [id \in RuleIds(IF data[a] = ModuleScript
                                 THEN DefaultScript ELSE custom) |-> 0]]
    /\ memstack = [a \in as |-> <<>>]
    /\ pc = [a \in as |-> "idle"]
    /\ loc = [a \in as |-> IdleLoc]
    /\ out = [a \in as |-> NoOut]
    /\ log = [a \in as |-> <<>>]
    /\ session = NewSession

InitWith(as, customs) ==
    \E data \in [as -> {ModuleScript, CustomObject}], custom \in customs :
       /\ (\A a \in as : data[a] = ModuleScript) => custom = BlankScript
       /\ Constructed(as, data, custom)

\* the effects every step of agent a has: on its script, its memory stack
\* and the lookup log (base is the log the step adds its lookups to)
Effects(a, S, mem, base, looked) ==
    /\ heap' = [heap EXCEPT ![ref[a]] = S]
    /\ memstack' = [memstack EXCEPT ![a] = mem]
    /\ log' = [log EXCEPT ![a] = AppendLog(base, Stamp(a, looked))]
    /\ nsel' = [nsel EXCEPT ![a] = Counted(a, looked)]
    /\ UNCHANGED <<ref, decl>>

\* the call of agent a ends: it returns or raises
Finish(a, S, mem, result, base, looked) ==
    /\ Effects(a, S, mem, base, looked)
    /\ pc' = [pc EXCEPT ![a] = "idle"]
    /\ loc' = [loc EXCEPT ![a] = IdleLoc]
    /\ out' = [out EXCEPT ![a] = result]

\* the call of agent a goes on at position p with locals l
Goto(a, p, S, mem, l, base, looked) ==
    /\ Effects(a, S, mem, base, looked)
    /\ pc' = [pc EXCEPT ![a] = p]
    /\ loc' = [loc EXCEPT ![a] = l]
    /\ UNCHANGED out

\* re.search(rule["decomposition"], None) in the start call
NoneFails(S) ==
    /\ KEYWORD_START \in DOMAIN S
    /\ "rules" \in DOMAIN S[KEYWORD_START]
    /\ S[KEYWORD_START].rules # <<>>
    /\ "decomposition" \in DOMAIN S[KEYWORD_START].rules[1]

\* a start call that also empties the memory stack
StartDone_reset(a, msg, S, k) ==
    IF k.exc = "" /\ msg.none /\ NoneFails(S)
    THEN Finish(a, S, <<>>, Raised("TypeError", msg), <<>>, <<>>)
    ELSE Finish(a, k.S, <<>>, Result(k.exc, k.resp, "start", msg),
                <<>>, k.looked)

StartDone(a, msg, S, k) ==
    IF k.exc = "" /\ msg.none /\ NoneFails(S)
    THEN Finish(a, S, memstack[a], Raised("TypeError", msg), <<>>, <<>>)
    ELSE Finish(a, k.S, memstack[a], Result(k.exc, k.resp, "start", msg),
                <<>>, k.looked)

\* a start call that is answered from the NONE keyword
StartCall_none(a, msg) ==
    StartDone(a, msg, heap[ref[a]],
              lookup(heap[ref[a]], KEYWORD_NONE, msg.text))

\* __call__ with empty or None input (lines 783-788)
StartCall(a, msg) ==
    StartDone(a, msg, heap[ref[a]],
              lookup(heap[ref[a]], KEYWORD_START, msg.text))

TurnRecorded(a, l, m) ==
    IF m.exc # ""
    THEN Finish(a, m.S, m.mem, Raised(m.exc, l.msg), <<>>, m.looked)
    ELSE /\ Len(m.mem) <= MaxMem
         /\ Goto(a, "for", m.S, m.mem, l, <<>>, m.looked)

\* a scan that selects a template of the first rule of the keyword it puts
\* at the head of the keystack
TurnScanned_rotating(a, msg, S, sc) ==
    IF sc.keystack = <<>>
    THEN Goto(a, "ret", S, memstack[a],
              [IdleLoc EXCEPT !.msg = msg, !.sentence = sc.altered_sentence],
              <<>>, <<>>)
    ELSE TurnRecorded(a,
            [IdleLoc EXCEPT !.msg = msg, !.sentence = sc.altered_sentence,
                            !.keystack = sc.keystack, !.idx = 1],
            add_to_memstack(
               SetRules(S, sc.keystack[1][1], "rules",
                        [S[sc.keystack[1][1]].rules EXCEPT
                            ![1].reassembly =
                               IF @ = <<>> THEN @ ELSE Append(Tail(@), Head(@))]),
               memstack[a], sc.keystack, sc.altered_sentence))

TurnScanned(a, msg, S, sc) ==
    IF sc.keystack = <<>>
    THEN Goto(a, "ret", S, memstack[a],
              [IdleLoc EXCEPT !.msg = msg, !.sentence = sc.altered_sentence],
              <<>>, <<>>)
    ELSE TurnRecorded(a,
            [IdleLoc EXCEPT !.msg = msg, !.sentence = sc.altered_sentence,
                            !.keystack = sc.keystack, !.idx = 1],
            add_to_memstack(S, memstack[a], sc.keystack, sc.altered_sentence))

\* __call__ with a non-empty input, up to the call of _process_keystack
\* (lines 790-818)
TurnCall(a, msg) ==
    TurnScanned(a, msg, heap[ref[a]],
                ScanSentences(heap[ref[a]], get_sentences(msg.text)))

\* NEWKEY is taken as a response like any other
Dropped_empty(resp) == resp = <<>>

\* the keyword is dropped: NEWKEY, or no response
Dropped(resp) == resp = NEWKEY \/ resp = <<>>

\* a NEWKEY met after a redirection ends the loop over the keystack
NextPc_chain(l, resp) ==
    IF resp = <<"NEWKEY">> \/ resp = <<>>
    THEN (IF l.resp # <<>> \/ l.idx + 1 > Len(l.keystack) THEN "ret" ELSE "for")
    ELSE IF startswith_eq(resp) THEN "while" ELSE "ret"

\* a keyword without a response is consulted again
NextLoc_again(l, k) ==
    IF k.resp = <<"NEWKEY">> \/ k.resp = <<>>
    THEN [l EXCEPT !.resp = <<>>, !.rule = [key |-> <<>>, i |-> 0]]
    ELSE IF startswith_eq(k.resp)
    THEN [l EXCEPT !.resp = k.resp, !.rule = [key |-> k.key, i |-> k.i]]
    ELSE [l EXCEPT !.resp = k.resp]

\* a loop over the keystack without the break after a response
NextPc_on(l, resp) ==
    IF startswith_eq(resp) THEN "while"
    ELSE IF l.idx + 1 > Len(l.keystack) THEN "ret" ELSE "for"

NextPc(l, resp) ==
    IF Dropped(resp)
    THEN (IF l.idx + 1 > Len(l.keystack) THEN "ret" ELSE "for")
    ELSE IF startswith_eq(resp) THEN "while" ELSE "ret"

NextLoc(l, k) ==
    IF Dropped(k.resp)
    THEN [l EXCEPT !.idx = l.idx + 1, !.resp = <<>>, !.rule = NoRule]
    ELSE IF startswith_eq(k.resp)
    THEN [l EXCEPT !.resp = k.resp, !.rule = [key |-> k.key, i |-> k.i]]
    ELSE [l EXCEPT !.resp = k.resp]

\* lines 917-944 of _process_keystack after the lookup k
AfterLookup(a, l, k) ==
    IF k.exc # ""
    THEN Finish(a, k.S, memstack[a], Raised(k.exc, l.msg), log[a], k.looked)
    ELSE Goto(a, NextPc(l, k.resp), k.S, memstack[a], NextLoc(l, k), log[a],
              k.looked)

\* the redirection to resp[1:] with the sentence after `pre`
\* a redirection whose rewritten sentence is used for its target only
Redirect_local(a, l, S, altered_sentence) ==
    AfterLookup(a, l, lookup(S, Tail(l.resp), altered_sentence))

\* a redirection whose target is matched against the sentence before `pre`
Redirect_unrewritten(a, l, S, altered_sentence) ==
    AfterLookup(a, [l EXCEPT !.sentence = altered_sentence],
                lookup(S, Tail(l.resp), l.sentence))

Redirect(a, l, S, altered_sentence) ==
    AfterLookup(a, [l EXCEPT !.sentence = altered_sentence],
                lookup(S, Tail(l.resp), altered_sentence))

\* lines 923-934: `pre` of the rule that redirected, then the redirection
WhileRule(a, l, S, rule) ==
    IF "pre" \in DOMAIN rule /\ "decomposition" \notin DOMAIN rule
    THEN Finish(a, S, memstack[a], Raised("KeyError", l.msg), log[a], <<>>)
    ELSE Redirect(a, l, S,
                  IF "pre" \in DOMAIN rule
                  THEN re_sub(rule.decomposition, rule.pre, l.sentence)
                  ELSE l.sentence)

Fallback(a, l, f) ==
    Finish(a, f.S, f.mem, Result(f.exc, f.resp, f.via, l.msg), log[a],
           f.looked)

\* ---------------------------------------------------------------- actions
\* Chatbot.__call__: one call at a time (the callers are single-threaded)
Invoke(a, msg) ==
    /\ \A b \in Agents : pc[b] = "idle"
    /\ IF msg.none \/ msg.text = <<>> THEN StartCall(a, msg)
       ELSE TurnCall(a, msg)

\* a call made by a caller other than the session
Call(a, msg) == Invoke(a, msg) /\ UNCHANGED session

\* one iteration of `for keyword, _ in keystack` up to its first lookup
\* (lines 914-920)
ForStep(a) ==
    /\ pc[a] = "for"
    /\ AfterLookup(a, loc[a],
                   lookup(heap[ref[a]], loc[a].keystack[loc[a].idx][1],
                          loc[a].sentence))
    /\ UNCHANGED session

\* one iteration of `while resp.startswith("=")` (lines 921-939)
WhileStep(a) ==
    /\ pc[a] = "while"
    /\ WhileRule(a, loc[a], heap[ref[a]],
                 heap[ref[a]][loc[a].rule.key].rules[loc[a].rule.i])
    /\ UNCHANGED session

\* the end of __call__ (lines 820-830): fallback when resp is empty, return
Return(a) ==
    /\ pc[a] = "ret"
    /\ IF loc[a].resp # <<>>
       THEN Finish(a, heap[ref[a]], memstack[a],
                   Ok(loc[a].resp, "engine", loc[a].msg), log[a], <<>>)
       ELSE Fallback(a, loc[a],
                     fallback_response(heap[ref[a]], memstack[a],
                                       heap[ModuleScript]))
    /\ UNCHANGED session

\* ----------------------------------------------------------- scripts, inputs
\* a rule without decomposition and a pattern  ^.*\bPHRASE (.*)$
Plain(reassembly) == [reassembly |-> reassembly]
Tail1(phrase) == [phrase |-> phrase, alts |-> {}, bad |-> FALSE]

\* a script that exercises memory rules, redirection, `pre` and NEWKEY
EngineScript ==
    (KEYWORD_START :> [rules |-> << Plain(<< <<"Hello">>, <<"Welcome">> >>) >>]) @@
    (KEYWORD_NONE :>
       [rules |-> << Plain(<< <<"Go", " ", "on">>, <<"I", " ", "see">> >>) >>]) @@
    (<<"P">> :>
       [rank |-> 0,
        rules |-> << Plain(<< <<"p1">>, <<"p2">> >>) >>,
        memory |-> << [decomposition |-> Tail1(<<"p">>),
                       reassembly |-> << <<"Earlier", " ", "p", " ", "\\1">> >>] >>]) @@
    (<<"Q">> :>
       [rank |-> 1,
        rules |-> << [decomposition |-> Tail1(<<"q">>),
                      pre |-> <<"p", " ", "\\1">>,
                      reassembly |-> << <<"=", "P">> >>],
                     Plain(<< NEWKEY >>) >>,
        memory |-> << [decomposition |-> Tail1(<<"q">>),
                       reassembly |-> << <<"Earlier", " ", "q", " ", "\\1">> >>] >>]) @@
    (<<"H">> :> [rank |-> 2, rules |-> << Plain(<< NEWKEY >>) >>])

\* a script whose redirections form the cycles A -> B -> A and C -> C
CycleScript ==
    (KEYWORD_START :> [rules |-> << Plain(<< <<"Hello">> >>) >>]) @@
    (KEYWORD_NONE :>
       [rules |-> << Plain(<< <<"Go", " ", "on">>, <<"I", " ", "see">> >>) >>]) @@
    (<<"A">> :> [rules |-> << Plain(<< <<"=", "B">> >>) >>]) @@
    (<<"B">> :> [rules |-> << Plain(<< <<"=", "A">> >>) >>]) @@
    (<<"C">> :> [rules |-> << Plain(<< <<"=", "C">> >>) >>]) @@
    (<<"D">> :> [rules |-> << Plain(<< <<"d1">>, <<"d2">>, <<"d3">> >>) >>])

\* a small script with rotation, a memory rule and a redirection
PairScript ==
    (KEYWORD_START :> [rules |-> << Plain(<< <<"Hello">>, <<"Welcome">> >>) >>]) @@
    (KEYWORD_NONE :>
       [rules |-> << Plain(<< <<"Go", " ", "on">>, <<"I", " ", "see">> >>) >>]) @@
    (<<"P">> :>
       [rules |-> << Plain(<< <<"p1">>, <<"p2">> >>) >>,
        memory |-> << [decomposition |-> Tail1(<<"p">>),
                       reassembly |-> << <<"Earlier", " ", "p", " ", "\\1">> >>] >>]) @@
    (<<"H">> :> [rules |-> << Plain(<< <<"=", "P">> >>) >>])

\* a script of keywords that differ in rank only (E has no rank)
RankScript ==
    (KEYWORD_START :> [rules |-> << Plain(<< <<"Hello">> >>) >>]) @@
    (KEYWORD_NONE :> [rules |-> << Plain(<< <<"Go", " ", "on">> >>) >>]) @@
    (<<"E">> :> [rules |-> << Plain(<< <<"e1">> >>) >>]) @@
    (<<"F">> :> [rank |-> 1, rules |-> << Plain(<< <<"f1">> >>) >>]) @@
    (<<"G">> :> [rank |-> 2, rules |-> << Plain(<< <<"g1">> >>) >>]) @@
    (<<"H">> :> [rank |-> 2, rules |-> << Plain(<< <<"h1">> >>) >>])

\* a script with a rule whose reassembly list is empty
BadScript ==
    (KEYWORD_START :> [rules |-> << Plain(<< <<"Hello">> >>) >>]) @@
    (KEYWORD_NONE :> [rules |-> << Plain(<< <<"Go", " ", "on">> >>) >>]) @@
    (<<"V">> :> [rules |-> << Plain(<< >>) >>])

\* a script with a redirection to a keyword that it does not define
DanglingScript ==
    (KEYWORD_START :> [rules |-> << Plain(<< <<"Hello">> >>) >>]) @@
    (KEYWORD_NONE :> [rules |-> << Plain(<< <<"Go", " ", "on">> >>) >>]) @@
    (<<"Y">> :> [rank |-> 1, rules |-> << Plain(<< <<"=", "X">> >>) >>]) @@
    (<<"D">> :> [rules |-> << Plain(<< <<"d1">>, <<"d2">> >>) >>])

\* a pattern that re cannot compile, such as  ^.*\bPHRASE ((.*)$
Unbalanced(phrase) == [phrase |-> phrase, alts |-> {}, bad |-> TRUE]

\* a script whose keyword G has a rule with a malformed decomposition
\* followed by a rule without decomposition
MalformedScript ==
    (KEYWORD_START :> [rules |-> << Plain(<< <<"Hello">> >>) >>]) @@
    (KEYWORD_NONE :> [rules |-> << Plain(<< <<"Go", " ", "on">> >>) >>]) @@
    (<<"G">> :>
       [rules |-> << [decomposition |-> Unbalanced(<<"g">>),
                      reassembly |-> << <<"g1", " ", "\\1">> >>],
                     Plain(<< <<"g2">> >>) >>]) @@
    (<<"F">> :> [rules |-> << Plain(<< <<"f1">>, <<"f2">> >>) >>])

\* a script whose keyword A has three rules, each with two templates: the
\* first matches "b ...", the second "a ...", the third has no decomposition;
\* the only rule of B matches "y ..."
OrderScript ==
    (KEYWORD_START :> [rules |-> << Plain(<< <<"Hello">> >>) >>]) @@
    (KEYWORD_NONE :> [rules |-> << Plain(<< <<"Go", " ", "on">> >>) >>]) @@
    (<<"A">> :>
       [rules |-> << [decomposition |-> Tail1(<<"b">>),
                      reassembly |-> << <<"r1", " ", "\\1">>, <<"r2">> >>],
                     [decomposition |-> Tail1(<<"a">>),
                      reassembly |-> << <<"s1", " ", "\\1">>, <<"s2">> >>],
                     Plain(<< <<"t1">>, <<"t2">> >>) >>]) @@
    (<<"B">> :>
       [rules |-> << [decomposition |-> Tail1(<<"y">>),
                      reassembly |-> << <<"u1">>, <<"u2">> >>] >>])

\* a script without the reserved keyword NONE
NoNoneScript ==
    (KEYWORD_START :> [rules |-> << Plain(<< <<"Hello">>, <<"Welcome">> >>) >>]) @@
    (<<"M">> :> [rules |-> << Plain(<< <<"m1">>, <<"m2">>, <<"m3">> >>) >>]) @@
    (<<"Y">> :> [rules |-> << Plain(<< <<"=", "M">> >>) >>])

\* a script without the reserved keyword START
NoStartScript ==
    (KEYWORD_NONE :>
       [rules |-> << Plain(<< <<"Go", " ", "on">>, <<"I", " ", "see">> >>) >>]) @@
    (<<"M">> :> [rules |-> << Plain(<< <<"m1">>, <<"m2">>, <<"m3">> >>) >>]) @@
    (<<"Y">> :> [rules |-> << Plain(<< <<"=", "M">> >>) >>])

\* the scripts that lack a reserved keyword
LackingScripts == {NoNoneScript, NoStartScript}

\* a script whose lists hold a redirection or NEWKEY besides other templates:
\* K redirects to N, whose first template is NEWKEY; W has a `pre` and a
\* redirection, a literal template and NEWKEY
ChainScript ==
    (KEYWORD_START :> [rules |-> << Plain(<< <<"Hello">>, <<"Welcome">> >>) >>]) @@
    (KEYWORD_NONE :>
       [rules |-> << Plain(<< <<"Go", " ", "on">>, <<"I", " ", "see">> >>) >>]) @@
    (<<"K">> :> [rules |-> << Plain(<< <<"=", "N">>, <<"k1">> >>) >>]) @@
    (<<"N">> :> [rules |-> << Plain(<< NEWKEY, <<"n1">> >>) >>]) @@
    (<<"W">> :>
       [rules |-> << [decomposition |-> Tail1(<<"w">>),
                      pre |-> <<"t", " ", "\\1">>,
                      reassembly |-> << <<"=", "T">>,
                                        <<"w1", " ", "\\1">>,
                                        NEWKEY >>] >>]) @@
    (<<"T">> :>
       [rules |-> << [decomposition |-> Tail1(<<"t">>),
                      reassembly |-> << <<"t1", " ", "\\1">>,
                                        <<"t2", " ", "\\1">> >>] >>])

\* a script with the redirection path A -> B -> C
PathScript ==
    (KEYWORD_START :> [rules |-> << Plain(<< <<"Hello">>, <<"Welcome">> >>) >>]) @@
    (KEYWORD_NONE :>
       [rules |-> << Plain(<< <<"Go", " ", "on">>, <<"I", " ", "see">> >>) >>]) @@
    (<<"A">> :> [rules |-> << Plain(<< <<"=", "B">>, <<"a1">> >>) >>]) @@
    (<<"B">> :> [rules |-> << Plain(<< <<"=", "C">>, NEWKEY >>) >>]) @@
    (<<"C">> :> [rules |-> << Plain(<< <<"c1">>, NEWKEY >>) >>])

\* a script in which M records a memory and yields no response, W rewrites
\* the sentence and redirects to M, T matches the rewritten sentence only,
\* R redirects to NONE, and P records a memory and answers
TurnScript ==
    (KEYWORD_START :> [rules |-> << Plain(<< <<"Hello">> >>) >>]) @@
    (KEYWORD_NONE :>
       [rules |-> << Plain(<< <<"Go", " ", "on">>, <<"I", " ", "see">> >>) >>]) @@
    (<<"M">> :>
       [rules |-> << Plain(<< NEWKEY >>) >>,
        memory |-> << [decomposition |-> Tail1(<<"m">>),
                       reassembly |-> << <<"Earlier", " ", "m", " ", "\\1">> >>] >>]) @@
    (<<"W">> :>
       [rules |-> << [decomposition |-> Tail1(<<"w">>),
                      pre |-> <<"u", " ", "\\1">>,
                      reassembly |-> << <<"=", "M">> >>] >>]) @@
    (<<"T">> :>
       [rules |-> << [decomposition |-> Tail1(<<"u">>),
                      reassembly |-> << <<"t1", " ", "\\1">>,
                                        <<"t2", " ", "\\1">> >>] >>]) @@
    (<<"R">> :> [rules |-> << Plain(<< <<"=", "NONE">>, <<"r1">> >>) >>]) @@
    (<<"P">> :>
       [rules |-> << Plain(<< <<"p1">>, <<"p2">> >>) >>,
        memory |-> << [decomposition |-> Tail1(<<"p">>),
                       reassembly |-> << <<"Earlier", " ", "p", " ", "\\1">> >>] >>])

\* the scripts passed as `data` besides the module-level one
CustomScripts ==
    {BlankScript, EngineScript, CycleScript, RankScript, BadScript, PairScript,
     DanglingScript, MalformedScript, OrderScript, ChainScript}

\* longest input of rank keywords, in tokens
MaxTokens == 3

\* the texts "w1 w2 .. wk" with k <= n words of W
Phrases(W, n) ==
    { join(t) : t \in UNION { [1..k -> {<<w>> : w \in W}] : k \in 1..n } }

DefaultMsgs ==
    { Msg(<<"xyz">>), Msg(<<"No">>), Msg(<<"no">>),
      Msg(<<"no", " ", "no", " ", "no">>),
      Msg(<<"my", " ", "mother", " ", "is", " ", "nice">>),
      Msg(<<"xyz", ".", " ", "no", ",", " ", "my", " ", "dog">>) }

EngineMsgs ==
    { Msg(<<"x">>), Msg(<<"p", " ", "x">>), Msg(<<"q", " ", "x">>),
      Msg(<<"h">>), Msg(<<"p", " ", "q", " ", "x">>),
      Msg(<<"h", " ", "p", " ", "x">>) }

PairMsgs == { Msg(<<"x">>), Msg(<<"p", " ", "x">>), Msg(<<"h">>) }

DanglingMsgs ==
    { Msg(<<"x">>), Msg(<<"y">>), Msg(<<"d">>), Msg(<<"d", " ", "y">>) }

MalformedMsgs ==
    { Msg(<<"x">>), Msg(<<"g", " ", "x">>), Msg(<<"f">>),
      Msg(<<"g", " ", "f">>) }

OrderMsgs ==
    { Msg(<<"x">>), Msg(<<"a">>), Msg(<<"a", " ", "x">>),
      Msg(<<"a", " ", "b", " ", "x">>), Msg(<<"b">>) }

LackingMsgs ==
    { Msg(<<"x">>), Msg(<<"m">>), Msg(<<"y">>), Msg(<<"x", " ", "m", " ", "y">>) }

CycleMsgs ==
    { Msg(<<"x">>), Msg(<<"a">>), Msg(<<"B">>), Msg(<<"c">>), Msg(<<"d">>),
      Msg(<<"d", " ", "a">>), Msg(<<"x", ",", "a", " ", "d">>) }

\* the inputs tried on an agent, by the script it was constructed with
ChainMsgs ==
    { Msg(<<"x">>), Msg(<<"k">>), Msg(<<"k", " ", "n">>),
      Msg(<<"w", " ", "x">>), Msg(<<"w", " ", "t", " ", "x">>) }

PathMsgs ==
    { Msg(<<"x">>), Msg(<<"a">>), Msg(<<"b">>), Msg(<<"a", " ", "b">>),
      Msg(<<"c", " ", "b", " ", "a">>) }

TurnMsgs ==
    { Msg(<<"x">>), Msg(<<"m", " ", "x">>), Msg(<<"w", " ", "t", " ", "x">>),
      Msg(<<"t", " ", "x">>), Msg(<<"r">>), Msg(<<"p", " ", "x">>),
      Msg(<<"none">>) }

MsgsFor(S) ==
    {None, Msg(<<>>)} \cup
    (IF S = DefaultScript THEN DefaultMsgs
     ELSE IF S = BlankScript THEN {Msg(<<"xyz">>), Msg(<<"mykeyword">>)}
     ELSE IF S = EngineScript THEN EngineMsgs
     ELSE IF S = CycleScript THEN CycleMsgs
     ELSE IF S = PairScript THEN PairMsgs
     ELSE IF S \in LackingScripts THEN LackingMsgs
     ELSE IF S = DanglingScript THEN DanglingMsgs
     ELSE IF S = MalformedScript THEN MalformedMsgs
     ELSE IF S = OrderScript THEN OrderMsgs
     ELSE IF S = ChainScript THEN ChainMsgs
     ELSE IF S = PathScript THEN PathMsgs
     ELSE IF S = TurnScript THEN TurnMsgs
     ELSE IF S = RankScript
     THEN {Msg(t) : t \in Phrases({"e", "f", "g", "h", "x"}, MaxTokens)}
     ELSE {Msg(<<"x">>), Msg(<<"v">>)})

\* one agent
Single == {1}

Init == InitWith(Single, CustomScripts)

Next ==
    \/ \E a \in Agents : \E msg \in MsgsFor(decl[a]) : Call(a, msg)
    \/ \E a \in Agents : ForStep(a)
    \/ \E a \in Agents : WhileStep(a)
    \/ \E a \in Agents : Return(a)

Spec == Init /\ [][Next]_vars

\* two agents constructed with the same script object
Pair == {1, 2}

PairInit ==
    Constructed(Pair, [a \in Pair |-> CustomObject], PairScript)

SpecPair == PairInit /\ [][Next]_vars

\* agents constructed with a script that lacks a reserved keyword
LackingInit == InitWith(Single, LackingScripts)

SpecLacking == LackingInit /\ [][Next]_vars

\* a call that was started runs on: the interpreter executes the next
\* statement of __call__ until the call returns or raises
Fairness ==
    \A a \in Single :
        WF_vars(ForStep(a)) /\ WF_vars(WhileStep(a)) /\ WF_vars(Return(a))

\* agents constructed with the cyclic script
CycleInit == InitWith(Single, {CycleScript})

FairSpec == CycleInit /\ [][Next]_vars /\ Fairness

\* agents constructed with a script whose redirections are acyclic
AcyclicScripts == {PathScript, ChainScript, TurnScript}
AcyclicInit == InitWith(Single, AcyclicScripts)
SpecAcyclic == AcyclicInit /\ [][Next]_vars

\* ------------------------------------------------ the text methods alone
\* longest text given to the text methods, in symbols
MaxText == 3

\* the symbols of those texts: the space, a tab, characters that separate
\* sentences or are tokens of their own, and letters
TextSymbols == {" ", "\t", ".", ",", "?", "a", "b"}

Texts == UNION { [1..n -> TextSymbols] : n \in 0..MaxText }

\* the result of a direct call of a text method, as `out` keeps it
Value(kind, text, val) ==
    [kind |-> kind, text |-> text, via |-> "", none |-> FALSE, val |-> val]

\* list(agent._get_tokens(text)), as in the doctest of _get_tokens; the text
\* methods read no state, so that one call of a new agent shows what they do
CallGetTokens(a, text) ==
    /\ pc[a] = "idle" /\ out[a] = NoOut
    /\ out' = [out EXCEPT ![a] = Value("tokens", text, get_tokens(text))]
    /\ UNCHANGED <<heap, ref, memstack, pc, loc, decl, nsel, log, session>>

\* agent._get_sentences(text), as in the doctest of _get_sentences
CallGetSentences(a, text) ==
    /\ pc[a] = "idle" /\ out[a] = NoOut
    /\ out' = [out EXCEPT ![a] = Value("sentences", text, get_sentences(text))]
    /\ UNCHANGED <<heap, ref, memstack, pc, loc, decl, nsel, log, session>>

TextNext ==
    \/ \E a \in Agents : \E text \in Texts : CallGetTokens(a, text)
    \/ \E a \in Agents : \E text \in Texts : CallGetSentences(a, text)

TextInit == InitWith(Single, {BlankScript})
TextSpec == TextInit /\ [][TextNext]_vars

\* ------------------------------------------------- the multi-agent session
\* most agents of a session, and most calls of next() that are followed
MaxAgents == 3
MaxCalls == 6

\* a script whose responses hold keywords, so that the agents of a session
\* answer each other from the rule engine as well
TalkScript ==
    (KEYWORD_START :> [rules |-> << Plain(<< <<"h">>, <<"Hello">> >>) >>]) @@
    (KEYWORD_NONE :> [rules |-> << Plain(<< <<"Go", " ", "on">>, <<"h">> >>) >>]) @@
    (<<"H">> :> [rules |-> << Plain(<< <<"=", "P">> >>) >>]) @@
    (<<"P">> :> [rules |-> << Plain(<< <<"p1">>, <<"h">> >>) >>])

SessionScripts == {BlankScript, PairScript, TalkScript}

\* len(self._agents)
NumAgents == Cardinality(Agents)

\* an index that stays at the same agent
Advance_stay(activeAgent, n) == activeAgent

\* (self._activeAgent + 1) % len(self._agents)
Advance(activeAgent, n) == (activeAgent + 1) % n

\* next() up to the call self._agents[self._activeAgent](self._message)
\* (line 52)
NextCall ==
    /\ session.at = "idle"
    /\ session.k < MaxCalls
    /\ Invoke(session.activeAgent + 1, Msg(session.message))
    /\ session' = [session EXCEPT !.at = "call", !.k = @ + 1,
                                  !.callee = session.activeAgent + 1,
                                  !.arg = session.message]

\* the session after agent a returned or raised r: an exception leaves
\* next() before any assignment (lines 52-56)
Returned(a, r) ==
    IF r.kind = "raise" THEN [session EXCEPT !.at = "idle"]
    ELSE [session EXCEPT !.message = r.text,
                         !.result = <<a, r.text>>,
                         !.activeAgent = Advance(@, NumAgents),
                         !.at = "idle"]

\* the rest of next() once the call of the agent has ended
NextReturn ==
    /\ session.at = "call"
    /\ pc[session.activeAgent + 1] = "idle"
    /\ session' = Returned(session.activeAgent + 1,
                           out[session.activeAgent + 1])
    /\ UNCHANGED <<heap, ref, memstack, pc, loc, out, decl, nsel, log>>

SessionNext ==
    \/ NextCall
    \/ \E a \in Agents : ForStep(a)
    \/ \E a \in Agents : WhileStep(a)
    \/ \E a \in Agents : Return(a)
    \/ NextReturn

\* the sessions over 1 to MaxAgents agents
SessionInit == \E n \in 1..MaxAgents : InitWith(1..n, SessionScripts)
SessionSpec == SessionInit /\ [][SessionNext]_vars

\* ------------------------------------------------------------------ claims
IsPlain(S, e) ==
    /\ e.i > 0
    /\ "decomposition" \notin DOMAIN RuleAt(S, <<e.key, e.field, e.i>>)

Declared(a, e) == RuleAt(decl[a], <<e.key, e.field, e.i>>).reassembly

\* C1: round-robin law.  Whenever a rule without decomposition is selected
\* for the n-th time on an agent, the template selected is the one at the
\* declared position ((n-1) mod k)+1 of its k templates, and a call that is
\* answered from such a rule (a keyword's rule, or NONE's rule through the
\* fallback with an empty memory stack) returns exactly that template.
C1_RoundRobin ==
    \A a \in Agents :
       /\ \A j \in 1..Len(log[a]) :
             IsPlain(decl[a], log[a][j]) =>
                log[a][j].trans = Declared(a, log[a][j])[log[a][j].n + 1]
       /\ ( /\ pc[a] = "idle" /\ out[a].via \in {"engine", "none"}
            /\ log[a] # <<>> /\ Len(log[a]) < MaxLog
            /\ IsPlain(decl[a], log[a][Len(log[a])]) )
          => out[a].text = Declared(a, log[a][Len(log[a])])
                              [log[a][Len(log[a])].n + 1]

\* the fourth "No" returned the fourth template of NO and the list is back
\* at its declared order, the fallback having used NONE's rule three times
C1_Witness ==
    \E a \in Agents :
       /\ decl[a] = DefaultScript
       /\ pc[a] = "idle"
       /\ out[a].text = <<"Why", " ", "'no'">>
       /\ nsel[a][<< <<"NO">>, "rules", 1 >>] = 0
       /\ nsel[a][<< KEYWORD_NONE, "rules", 1 >>] = 3
       /\ heap[ref[a]][<<"NO">>] = DefaultScript[<<"NO">>]

\* C2: redirection chains terminate.  With the script in which A's only
\* template redirects to B and B's only template redirects to A (and C's
\* only template to C itself), a call that follows a redirection finishes.
C2_CycleTerminates ==
    \A a \in Single :
       (decl[a] = CycleScript /\ pc[a] = "while") ~> (pc[a] = "idle")

\* the head template of the NONE keyword's rule in the agent's own script
NoneHead(a) == Head(heap[ref[a]][KEYWORD_NONE].rules[1].reassembly)

\* C3: fallback order.  When a turn ends with no response of the rule
\* engine (no sentence had a keyword with rules, or every keystack entry was
\* dropped), the call returns the head of the memory stack and removes it,
\* leaving the script as it is, if the memory stack is non-empty; only with
\* an empty memory stack it returns the head template of NONE's rule.
C3_FallbackOrder ==
    [][ \A a \in Agents :
          (pc[a] = "ret" /\ loc[a].resp = <<>> /\ pc'[a] = "idle") =>
             IF memstack[a] # <<>>
             THEN /\ out'[a].kind = "ok"
                  /\ out'[a].text = Head(memstack[a])
                  /\ memstack'[a] = Tail(memstack[a])
                  /\ heap'[ref[a]] = heap[ref[a]]
             ELSE /\ out'[a].kind = "ok"
                  /\ out'[a].text = NoneHead(a)
                  /\ memstack'[a] = <<>> ]_vars

\* a turn whose keystack was exhausted got the oldest remembered sentence,
\* and one entry recorded later is still on the stack
C3_Witness ==
    \E a \in Agents :
       /\ pc[a] = "idle"
       /\ out[a].via = "memory"
       /\ out[a].text = <<"Earlier", " ", "p", " ", "x">>
       /\ log[a] # <<>>
       /\ memstack[a] # <<>>

\* a template that is returned as it is: not empty, no redirection, not NEWKEY
Literal(t) == t # <<>> /\ ~startswith_eq(t) /\ t # NEWKEY

\* keyword K of script S has rules, all without decomposition and each with
\* a non-empty list of literal templates
LiteralRules(S, K) ==
    /\ K \in DOMAIN S
    /\ "rules" \in DOMAIN S[K]
    /\ S[K].rules # <<>>
    /\ \A i \in DOMAIN S[K].rules :
          /\ "decomposition" \notin DOMAIN S[K].rules[i]
          /\ S[K].rules[i].reassembly # <<>>
          /\ \A j \in DOMAIN S[K].rules[i].reassembly :
                Literal(S[K].rules[i].reassembly[j])

\* the keywords that the templates of keyword K redirect to
RedirectsOf(S, K) ==
    IF K \in DOMAIN S /\ "rules" \in DOMAIN S[K]
    THEN UNION { { upper(Tail(S[K].rules[i].reassembly[j])) :
                     j \in { j \in DOMAIN S[K].rules[i].reassembly :
                               startswith_eq(S[K].rules[i].reassembly[j]) } } :
                 i \in DOMAIN S[K].rules }
    ELSE {}

RECURSIVE ReachedIn(_, _, _)
\* the keywords reached from the set Ks by at most n further redirections
ReachedIn(S, Ks, n) ==
    IF n = 0 THEN Ks
    ELSE ReachedIn(S, Ks \cup UNION { RedirectsOf(S, K) : K \in Ks }, n - 1)

\* the keywords reached from K by one or more redirections
ReachedFrom(S, K) == ReachedIn(S, RedirectsOf(S, K), Cardinality(DOMAIN S))

\* START and NONE have non-empty literal templates, the redirections are
\* acyclic and all resolve to keywords with rules
Resolving(S) ==
    /\ LiteralRules(S, KEYWORD_START)
    /\ LiteralRules(S, KEYWORD_NONE)
    /\ \A K \in DOMAIN S :
          /\ K \notin ReachedFrom(S, K)
          /\ \A T \in RedirectsOf(S, K) :
                T \in DOMAIN S /\ "rules" \in DOMAIN S[T]

\* C4: for a script that defines START and NONE with non-empty literal
\* templates and whose redirections are acyclic and resolve to keywords with
\* rules, every call returns a non-empty string.
C4_NonEmptyResponse ==
    \A a \in Agents :
       (Resolving(decl[a]) /\ pc[a] = "idle" /\ out[a] # NoOut) =>
          (out[a].kind = "ok" /\ out[a].text # <<>>)

\* agent a is fresh: no call was made on it
Untouched(a) == pc[a] = "idle" /\ out[a] = NoOut

\* C5: on a fresh agent, a call whose input is the empty string or None
\* returns the first declared template of the START keyword's rule, verbatim.
C5_StartTemplate ==
    [][ \A a \in Agents : \A msg \in {None, Msg(<<>>)} :
          (Untouched(a) /\ Call(a, msg)) =>
             /\ out'[a].kind = "ok"
             /\ out'[a].text =
                   Head(decl[a][KEYWORD_START].rules[1].reassembly) ]_vars

\* the first call, with None, on an agent whose START rule has two templates
C5_Witness ==
    \E a \in Agents :
       /\ decl[a] = EngineScript
       /\ pc[a] = "idle"
       /\ out[a] = Ok(<<"Hello">>, "start", None)
       /\ heap[ref[a]][KEYWORD_START].rules[1].reassembly =
             << <<"Welcome">>, <<"Hello">> >>
       /\ \A id \in DOMAIN nsel[a] : id[1] # KEYWORD_START => nsel[a][id] = 0

\* the script object that was passed to the constructor of agent a
Template(a) == IF decl[a] = DefaultScript THEN ModuleScript ELSE CustomObject

\* C6: no sequence of calls on an agent changes the script object that was
\* passed at its construction, nor the module-level default script: every
\* reassembly list of it keeps its declared order.
C6_TemplateUnchanged ==
    /\ heap[ModuleScript] = DefaultScript
    /\ \A a \in Agents : heap[Template(a)] = decl[a]

\* an agent of the default script has rotated the NO and NONE lists of its
\* own copy, and the module-level script still has them in declared order
C6_Witness ==
    \E a \in Agents :
       /\ decl[a] = DefaultScript
       /\ pc[a] = "idle"
       /\ ref[a] # ModuleScript
       /\ Head(heap[ref[a]][<<"NO">>].rules[1].reassembly) =
             DefaultScript[<<"NO">>].rules[1].reassembly[2]
       /\ Head(heap[ref[a]][KEYWORD_NONE].rules[1].reassembly) =
             DefaultScript[KEYWORD_NONE].rules[1].reassembly[2]
       /\ heap[ModuleScript][<<"NO">>] = DefaultScript[<<"NO">>]

\* everything agent a owns: its script object, its memory stack, the
\* position and locals of its running call and its last outcome
View(a) == <<ref[a], heap[ref[a]], memstack[a], pc[a], loc[a], out[a]>>

\* C7: two agents built from the same script share no mutable state.  The
\* agents refer to different script objects, neither of them the object they
\* were built from, and a step that changes what one agent owns leaves
\* everything the other agent owns as it was: in any interleaving of whole
\* calls an agent's outputs, rotation state and memory stack are those of
\* its own calls alone.
C7_Isolation ==
    [][ \A a \in Agents : \A b \in Agents \ {a} :
          /\ ref[a] # ref[b]
          /\ ref[a] \notin {ModuleScript, CustomObject}
          /\ (View(b)' # View(b)) => (View(a)' = View(a)) ]_vars

\* both agents were built from the same script and have been called: the
\* first has rotated P and remembers a sentence, the second has used up the
\* sentence it remembered and has not rotated NONE
C7_Witness ==
    /\ Agents = Pair
    /\ pc[1] = "idle" /\ pc[2] = "idle"
    /\ decl[1] = decl[2]
    /\ out[1].text = <<"p2">>
    /\ memstack[1] # <<>>
    /\ out[2].via = "memory"
    /\ memstack[2] = <<>>
    /\ heap[ref[2]][KEYWORD_NONE] = PairScript[KEYWORD_NONE]
    /\ heap[ref[1]][<<"P">>] # heap[ref[2]][<<"P">>]

\* the keystack after the first n tokens of toks were scanned
KeystackAfter(S, toks, n) == scan_sentence(S, SubSeq(toks, 1, n)).keystack

\* token t is a keyword of S with rules
WithRules(S, t) == upper(t) \in DOMAIN S /\ "rules" \in DOMAIN S[upper(t)]

\* the keystack entry of token t: (keyword, rank), the rank 0 when undeclared
EntryOf(S, t) ==
    <<upper(t), IF "rank" \in DOMAIN S[upper(t)] THEN S[upper(t)].rank ELSE 0>>

\* the insertion policy at token n of toks
PolicyAt(S, toks, n) ==
    LET before == KeystackAfter(S, toks, n - 1)
        after == KeystackAfter(S, toks, n)
        e == EntryOf(S, toks[n])
    IN  IF ~WithRules(S, toks[n]) THEN after = before
        ELSE IF before = <<>> THEN after = <<e>>
        ELSE IF e[2] > before[1][2] THEN after = <<e>> \o before
        ELSE after = Append(before, e)

\* C8: keystack insertion policy.  While the tokens of a sentence are scanned
\* left to right, the first detected keyword with rules starts the keystack;
\* each later one goes to the front if and only if its rank is strictly
\* greater than the rank of the current front entry, and otherwise (also
\* with equal rank) to the back.  The keystack of the running turn is the
\* one after the last token.
C8_InsertionPolicy ==
    \A a \in Agents :
       (pc[a] # "idle" /\ Len(get_sentences(loc[a].msg.text)) = 1) =>
          /\ loc[a].keystack =
                KeystackAfter(heap[ref[a]], get_tokens(loc[a].msg.text),
                              Len(get_tokens(loc[a].msg.text)))
          /\ \A n \in 1..Len(get_tokens(loc[a].msg.text)) :
                PolicyAt(heap[ref[a]], get_tokens(loc[a].msg.text), n)

\* "f g h": G went to the front of F, H of equal rank went to the back
C8_Witness ==
    \E a \in Agents :
       /\ pc[a] = "for"
       /\ loc[a].msg = Msg(<<"f", " ", "g", " ", "h">>)
       /\ loc[a].keystack = << <<<<"G">>, 2>>, <<<<"F">>, 1>>, <<<<"H">>, 2>> >>

\* the sentences of text whose scan yields a non-empty keystack
Hits(S, text) ==
    { i \in 1..Len(get_sentences(text)) :
        scan_sentence(S, get_tokens(get_sentences(text)[i])).keystack # <<>> }

\* the sentence that supplies the turn: the first of Hits, else the last one
Supplier(S, text) ==
    IF Hits(S, text) = {} THEN Len(get_sentences(text))
    ELSE CHOOSE i \in Hits(S, text) : \A j \in Hits(S, text) : i <= j

Chosen(S, text) ==
    scan_sentence(S, get_tokens(get_sentences(text)[Supplier(S, text)]))

\* the keywords a turn with this keystack may consult: those of the
\* keystack, those their redirections lead to, and NONE for the fallback
Consultable(S, keystack) ==
    ReachedIn(S, { keystack[i][1] : i \in DOMAIN keystack },
              Cardinality(DOMAIN S)) \cup {KEYWORD_NONE}

\* the steps of a turn of agent a consult and rotate the keywords of
\* Consultable(keystack) only
OnlyConsultable(a, S, keystack) ==
    /\ \A K \in (DOMAIN S) \ Consultable(S, keystack) :
          heap'[ref[a]][K] = S[K]
    /\ \A j \in DOMAIN log'[a] : log'[a][j].key \in Consultable(S, keystack)

\* C9: the sentences of an input are scanned in order and the first sentence
\* whose scan yields a non-empty keystack supplies the keystack and the
\* altered sentence of the turn, which stay the turn's keystack and input to
\* its end; keywords that occur only in later sentences are not in the
\* keystack, are never looked up (so never produce the response) and none of
\* their rules is rotated in that turn.
C9_FirstSentence ==
    [][ \A a \in Agents :
          /\ (pc[a] = "idle" /\ pc'[a] # "idle") =>
                /\ loc'[a].keystack =
                      Chosen(heap[ref[a]], loc'[a].msg.text).keystack
                /\ loc'[a].sentence =
                      Chosen(heap[ref[a]], loc'[a].msg.text).altered_sentence
                /\ OnlyConsultable(a, heap[ref[a]], loc'[a].keystack)
          /\ (pc[a] # "idle") =>
                /\ OnlyConsultable(a, heap[ref[a]], loc[a].keystack)
                /\ pc'[a] # "idle" =>
                      /\ loc'[a].keystack = loc[a].keystack
                      /\ loc'[a].msg = loc[a].msg ]_vars

\* "xyz. no, my dog" on the default script: the second sentence supplied the
\* keystack, the response comes from NO, and MY of the third sentence was
\* neither rotated nor remembered
C9_Witness ==
    \E a \in Agents :
       /\ decl[a] = DefaultScript
       /\ pc[a] = "ret"
       /\ loc[a].msg =
             Msg(<<"xyz", ".", " ", "no", ",", " ", "my", " ", "dog">>)
       /\ loc[a].keystack = << <<<<"NO">>, 0>> >>
       /\ loc[a].resp = DefaultScript[<<"NO">>].rules[1].reassembly[1]
       /\ heap[ref[a]][<<"MY">>] = DefaultScript[<<"MY">>]
       /\ memstack[a] = <<>>

\* the response of the memory rules of keyword K to the sentence, empty
\* when K has no memory rules
MemoryResponse(S, K, sentence) ==
    IF "memory" \in DOMAIN S[K]
    THEN get_response([none |-> FALSE, rules |-> S[K].memory], sentence).resp
    ELSE <<>>

\* the memory rule lists of all keywords of S
MemoryLists(S) ==
    [K \in { K \in DOMAIN S : "memory" \in DOMAIN S[K] } |-> S[K].memory]

\* the step that starts a turn with keystack ks on script S: it records
\* from the head entry only and does not run the rule engine
RecordsHead(a, S, ks, sentence) ==
    /\ memstack'[a] =
          IF MemoryResponse(S, ks[1][1], sentence) # <<>>
          THEN Append(memstack[a], MemoryResponse(S, ks[1][1], sentence))
          ELSE memstack[a]
    /\ \A K \in (DOMAIN S) \ {ks[1][1]} : heap'[ref[a]][K] = S[K]
    /\ heap'[ref[a]][ks[1][1]].rules = S[ks[1][1]].rules
    /\ \A j \in DOMAIN log'[a] :
          log'[a][j].key = ks[1][1] /\ log'[a][j].field = "memory"
    /\ Len(log'[a]) <= 1

\* C10: memory recording.  In each turn with a non-empty keystack, before
\* the rule engine runs, only the head keystack entry's keyword is inspected
\* for memory rules; a non-empty response of them is appended, as one entry,
\* to the tail of the memory stack.  The rule engine then neither adds to the
\* memory stack nor evaluates or rotates any memory rule, whether or not it
\* produces a response, and the keystack is not changed.
C10_MemoryRecording ==
    [][ \A a \in Agents :
          /\ (pc[a] = "idle" /\ pc'[a] = "for") =>
                RecordsHead(a, heap[ref[a]], loc'[a].keystack,
                            loc'[a].sentence)
          /\ (pc[a] \in {"for", "while"}) =>
                /\ memstack'[a] = memstack[a]
                /\ MemoryLists(heap'[ref[a]]) = MemoryLists(heap[ref[a]])
                /\ pc'[a] # "idle" => loc'[a].keystack = loc[a].keystack
          /\ (pc[a] = "ret") =>
                /\ \/ memstack'[a] = memstack[a]
                   \/ memstack[a] # <<>> /\ memstack'[a] = Tail(memstack[a])
                /\ MemoryLists(heap'[ref[a]]) = MemoryLists(heap[ref[a]])
       ]_vars

\* "p q x": Q is the head of the keystack and its memory rule recorded the
\* sentence; the memory rule of P, the second entry, did not
C10_Witness ==
    \E a \in Agents :
       /\ decl[a] = EngineScript
       /\ pc[a] = "for"
       /\ loc[a].idx = 1
       /\ loc[a].keystack = << <<<<"Q">>, 1>>, <<<<"P">>, 0>> >>
       /\ memstack[a] = << <<"Earlier", " ", "q", " ", "x">> >>
       /\ heap[ref[a]][<<"P">>] = EngineScript[<<"P">>]

\* C11: the memory stack loses an entry only in the step that ends a turn in
\* which the rule engine produced no response, and then exactly one entry,
\* taken from the front; a turn that ends with a response of the rule engine
\* and a start call (empty or None input) remove no entry.
C11_MemoryLoss ==
    [][ \A a \in Agents :
          /\ (Len(memstack'[a]) < Len(memstack[a])) =>
                /\ pc[a] = "ret"
                /\ loc[a].resp = <<>>
                /\ memstack'[a] = Tail(memstack[a])
          /\ (pc[a] = "ret" /\ loc[a].resp # <<>>) =>
                memstack'[a] = memstack[a]
          /\ \A msg \in {None, Msg(<<>>)} :
                Call(a, msg) => memstack'[a] = memstack[a]
          /\ (memstack'[a] # memstack[a] /\ Len(memstack'[a]) >= Len(memstack[a]))
                => /\ pc[a] = "idle"
                   /\ Len(memstack'[a]) = Len(memstack[a]) + 1
                   /\ SubSeq(memstack'[a], 1, Len(memstack[a])) = memstack[a]
       ]_vars

\* two sentences were remembered, a turn without response took the older one
\* and the newer one is still there
C11_Witness ==
    \E a \in Agents :
       /\ decl[a] = EngineScript
       /\ pc[a] = "idle"
       /\ out[a] = Ok(<<"Earlier", " ", "q", " ", "x">>, "memory", Msg(<<"x">>))
       /\ memstack[a] = << <<"Earlier", " ", "p", " ", "x">> >>

\* C12: the memory stack is first in, first out.  Each step either leaves it
\* as it is, or puts one response at its tail (when a turn starts), or takes
\* the response at its front and returns it (a fallback); so of two recorded
\* responses the one recorded in the earlier turn is returned first.
C12_Fifo ==
    [][ \A a \in Agents :
          \/ /\ memstack'[a] = memstack[a]
             /\ (pc[a] # "idle" /\ pc'[a] = "idle") => out'[a].via # "memory"
          \/ /\ pc[a] = "idle" /\ out'[a] = out[a]
             /\ Len(memstack'[a]) = Len(memstack[a]) + 1
             /\ memstack'[a] = Append(memstack[a], memstack'[a][Len(memstack'[a])])
          \/ /\ memstack[a] # <<>>
             /\ pc[a] # "idle" /\ pc'[a] = "idle"
             /\ out'[a].via = "memory"
             /\ out'[a].text = Head(memstack[a])
             /\ memstack'[a] = Tail(memstack[a]) ]_vars

\* "Earlier p x" was recorded before "Earlier q x" and is returned first
C12_Witness ==
    \E a \in Agents :
       /\ decl[a] = EngineScript
       /\ pc[a] = "idle"
       /\ out[a].via = "memory"
       /\ out[a].text = <<"Earlier", " ", "p", " ", "x">>
       /\ memstack[a] = << <<"Earlier", " ", "q", " ", "x">> >>

\* the keystack has one entry and the sole rule of its keyword has the
\* single template NEWKEY
OnlyNewkey(S, keystack) ==
    /\ Len(keystack) = 1
    /\ Len(S[keystack[1][1]].rules) = 1
    /\ S[keystack[1][1]].rules[1].reassembly = << NEWKEY >>

\* C13: when the only keystack entry is a keyword whose sole rule has the
\* single template NEWKEY, the rule engine drops the entry and yields no
\* response, and the call returns the fallback response (the memory stack
\* head, or the head template of NONE), never the literal text NEWKEY.
C13_NewkeyFallsBack ==
    [][ \A a \in Agents :
          /\ (pc[a] = "for" /\ OnlyNewkey(heap[ref[a]], loc[a].keystack)) =>
                /\ pc'[a] = "ret"
                /\ loc'[a].resp = <<>>
                /\ loc'[a].keystack = loc[a].keystack
          /\ (pc[a] = "ret" /\ OnlyNewkey(heap[ref[a]], loc[a].keystack)) =>
                /\ out'[a].kind = "ok"
                /\ out'[a].text # NEWKEY
                /\ out'[a].text = IF memstack[a] # <<>> THEN Head(memstack[a])
                                  ELSE NoneHead(a) ]_vars

\* the input "h" was answered from NONE after H's NEWKEY was selected
C13_Witness ==
    \E a \in Agents :
       /\ decl[a] = EngineScript
       /\ pc[a] = "idle"
       /\ out[a] = Ok(<<"Go", " ", "on">>, "none", Msg(<<"h">>))
       /\ Len(log[a]) = 2
       /\ log[a][1].key = <<"H">> /\ log[a][1].trans = NEWKEY
       /\ log[a][2].key = KEYWORD_NONE

\* the templates of NO in declared order
NoTemplates == DefaultScript[<<"NO">>].rules[1].reassembly

\* agent a of the default script is at the end of a turn with input "no",
\* its n-th one (n counted modulo the length of NO's list) in a sequence of
\* inputs "no" that follows nothing but start calls
NoTurn(a, n) ==
    /\ decl[a] = DefaultScript
    /\ pc[a] = "ret"
    /\ loc[a].msg = Msg(<<"no">>)
    /\ memstack[a] = <<>>
    /\ nsel[a][<< <<"NO">>, "rules", 1 >>] = n % Len(NoTemplates)
    /\ \A id \in DOMAIN nsel[a] : id[1] # <<"NO">> => nsel[a][id] = 0

\* C14 (amended): with the default script, on a fresh agent after the start
\* call, four consecutive inputs "no" return the four templates of the NO
\* keyword in declared order, all distinct; the list has four templates, so
\* it is the fifth input "no", not the fourth, that repeats the first.
C14_NoFourTemplates ==
    /\ Len(NoTemplates) = 4
    /\ \A i \in 1..4 : \A j \in 1..4 : i # j => NoTemplates[i] # NoTemplates[j]
    /\ [][ \A a \in Agents : \A n \in 1..5 :
             NoTurn(a, n) =>
                /\ out'[a].kind = "ok"
                /\ out'[a].text = NoTemplates[((n - 1) % 4) + 1] ]_vars

\* C14: three consecutive inputs "no" return the first three templates of NO
\* in declared order, and the fourth input "no" returns the same response as
\* the first.
C14_FourthRepeatsFirst ==
    [][ \A a \in Agents : \A n \in 1..4 :
          NoTurn(a, n) =>
             /\ out'[a].kind = "ok"
             /\ out'[a].text = NoTemplates[IF n = 4 THEN 1 ELSE n] ]_vars

\* the fourth input "no" in a row is about to return "Why 'no'"
C14_Witness ==
    \E a \in Agents :
       /\ NoTurn(a, 4)
       /\ loc[a].resp = <<"Why", " ", "'no'">>
       /\ heap[ref[a]][<<"NO">>] = DefaultScript[<<"NO">>]

\* token t with the substitution of script S applied: the text authored
\* under "=" when the uppercase of t is a keyword that defines one
SubstOf(S, t) ==
    IF upper(t) \in DOMAIN S /\ "subst" \in DOMAIN S[upper(t)]
    THEN S[upper(t)].subst
    ELSE t

Substituted(S, toks) == [i \in 1..Len(toks) |-> SubstOf(S, toks[i])]

\* words in several casings: with a substitution (my), a keyword without
\* one (no), no keyword (xyz)
CasedWords == { <<"my">>, <<"My">>, <<"MY">>, <<"no">>, <<"xyz">> }

CasedTokens == UNION { [1..k -> CasedWords] : k \in 1..MaxTokens }

\* C15: word substitution.  A token whose uppercase form is a keyword that
\* defines a substitution is replaced in the altered sentence by the
\* substitution text as authored, whatever the casing of the token; every
\* other token passes through unchanged; the tokens are rejoined with single
\* spaces.  This holds for the scanner on all token sequences over
\* CasedWords and for the sentence each turn starts with.
C15_Substitution ==
    /\ \A toks \in CasedTokens :
          scan_sentence(DefaultScript, toks).altered_sentence =
             join(Substituted(DefaultScript, toks))
    /\ [][ \A a \in Agents :
             (pc[a] = "idle" /\ pc'[a] # "idle") =>
                \A toks \in { get_tokens(get_sentences(loc'[a].msg.text)
                                   [Supplier(heap[ref[a]], loc'[a].msg.text)]) } :
                   loc'[a].sentence = join(Substituted(heap[ref[a]], toks)) ]_vars

\* "my mother is nice" was scanned: "my" became "your", the rest is as typed
C15_Witness ==
    \E a \in Agents :
       /\ decl[a] = DefaultScript
       /\ pc[a] = "for"
       /\ loc[a].idx = 1
       /\ loc[a].msg = Msg(<<"my", " ", "mother", " ", "is", " ", "nice">>)
       /\ loc[a].sentence = <<"your", " ", "mother", " ", "is", " ", "nice">>

\* the first rule of keyword key that applies to the sentence has an empty
\* reassembly list
EmptyFirst(S, key, sentence) ==
    /\ key \in DOMAIN S
    /\ "rules" \in DOMAIN S[key]
    /\ FirstRule(S[key].rules, sentence) # 0
    /\ S[key].rules[FirstRule(S[key].rules, sentence)].reassembly = <<>>

\* C16: when the first matching rule of a consulted keyword has an empty
\* reassembly list, the engine yields an empty response for that keyword and
\* the turn continues with the next keystack entry or the fallback; the call
\* does not raise an error.
C16_EmptyListNoError ==
    [][ \A a \in Agents :
          ( /\ pc[a] = "for"
            /\ EmptyFirst(heap[ref[a]], loc[a].keystack[loc[a].idx][1],
                          loc[a].sentence) ) =>
             /\ pc'[a] \in {"for", "ret"}
             /\ loc'[a].resp = <<>>
             /\ out'[a] = out[a] ]_vars

\* the script lacks the reserved keyword START or the reserved keyword NONE
Lacks(S) == KEYWORD_START \notin DOMAIN S \/ KEYWORD_NONE \notin DOMAIN S

\* C17: if the script supplied at construction lacks the reserved START
\* keyword or the reserved NONE keyword, the configuration error is surfaced
\* at construction or at the first call on the agent, not later and not as a
\* normal response: the first call on such an agent ends with an error.
C17_SurfacedAtFirstCall ==
    [][ \A a \in Agents :
          (Lacks(decl[a]) /\ out[a] = NoOut /\ out'[a] # NoOut) =>
             out'[a].kind = "raise" ]_vars

\* C18: looking up a keyword that is not in the agent's script, such as the
\* target X of a redirection =X where X is undefined, is expected control
\* flow: it counts as no response for that keyword, the turn proceeds to the
\* next keystack entry or to the fallback, and the call does not abort.
C18_UnknownKeywordNoResponse ==
    [][ \A a \in Agents :
          ( /\ pc[a] = "while"
            /\ upper(Tail(loc[a].resp)) \notin DOMAIN heap[ref[a]] ) =>
             /\ pc'[a] \in {"for", "ret"}
             /\ loc'[a].resp = <<>>
             /\ out'[a] = out[a] ]_vars

\* keyword key of S has a rule with a malformed decomposition pattern
\* before any rule that applies without it
MalformedFirst(S, key) ==
    /\ "rules" \in DOMAIN S[key]
    /\ S[key].rules # <<>>
    /\ "decomposition" \in DOMAIN S[key].rules[1]
    /\ S[key].rules[1].decomposition.bad

\* C19: a rule whose decomposition pattern is malformed is treated at run
\* time like a rule that does not match: the engine proceeds to the next rule
\* of the keyword (then the next keyword, then the fallback) and the call
\* still returns a response.
C19_MalformedIsNoMatch ==
    [][ \A a \in Agents :
          ( /\ pc[a] = "for"
            /\ MalformedFirst(heap[ref[a]], loc[a].keystack[loc[a].idx][1]) ) =>
             /\ pc'[a] \in {"for", "while", "ret"}
             /\ out'[a] = out[a]
             /\ heap'[ref[a]][loc[a].keystack[loc[a].idx][1]].rules[1] =
                   heap[ref[a]][loc[a].keystack[loc[a].idx][1]].rules[1] ]_vars

\* the rule has no decomposition, or its decomposition matches the sentence
Applies(rule, sentence) ==
    \/ "decomposition" \notin DOMAIN rule
    \/ Matches(rule.decomposition, sentence)

\* every rule has a template and a pattern that compiles
Usable(rules) ==
    \A i \in DOMAIN rules :
       /\ rules[i].reassembly # <<>>
       /\ "decomposition" \in DOMAIN rules[i] => ~rules[i].decomposition.bad

\* the lookup of keyword K with the sentence, made by a step of the rule
\* engine of agent a, used rule i and only rule i of the list `rules`
UsedOnly(a, K, rules, i) ==
    /\ heap'[ref[a]][K].rules[i].reassembly =
          Append(Tail(rules[i].reassembly), Head(rules[i].reassembly))
    /\ \A j \in (DOMAIN rules) \ {i} : heap'[ref[a]][K].rules[j] = rules[j]
    /\ Len(log[a]) < MaxLog =>
          /\ log'[a][Len(log'[a])].key = K
          /\ log'[a][Len(log'[a])].i = i
          /\ log'[a][Len(log'[a])].trans = Head(rules[i].reassembly)

\* what C20 says of the lookup of K in the list `rules`
FirstMatchWins(a, K, rules, sentence) ==
    /\ \A i \in DOMAIN rules :
          ( /\ Applies(rules[i], sentence)
            /\ \A j \in 1..(i - 1) : ~Applies(rules[j], sentence) )
          => UsedOnly(a, K, rules, i)
    /\ (\A i \in DOMAIN rules : ~Applies(rules[i], sentence)) =>
          /\ heap'[ref[a]][K] = heap[ref[a]][K]
          /\ loc'[a].resp = <<>>

\* C20: within one lookup of a keyword's rule list, the rules are tried in
\* declared order and the first rule that has no decomposition or whose
\* decomposition matches the sentence is the only rule used: exactly that
\* rule's reassembly list is rotated by one and no other rule of the keyword
\* is rotated; when no rule matches, nothing is rotated.
C20_FirstMatchWins ==
    [][ \A a \in Agents :
          ( /\ pc[a] = "for"
            /\ Usable(heap[ref[a]][loc[a].keystack[loc[a].idx][1]].rules) ) =>
             FirstMatchWins(a, loc[a].keystack[loc[a].idx][1],
                heap[ref[a]][loc[a].keystack[loc[a].idx][1]].rules,
                loc[a].sentence) ]_vars

\* "a b x": the first and the second rule of A match, the first answered and
\* was rotated, the second and the third are in declared order
C20_Witness ==
    \E a \in Agents :
       /\ decl[a] = OrderScript
       /\ pc[a] = "ret"
       /\ loc[a].msg = Msg(<<"a", " ", "b", " ", "x">>)
       /\ loc[a].resp = <<"r1", " ", "x">>
       /\ heap[ref[a]][<<"A">>].rules[1].reassembly =
             << <<"r2">>, <<"r1", " ", "\\1">> >>
       /\ heap[ref[a]][<<"A">>].rules[2] = OrderScript[<<"A">>].rules[2]
       /\ heap[ref[a]][<<"A">>].rules[3] = OrderScript[<<"A">>].rules[3]

\* the keystack entry that the running turn of agent a is at
Current(a) == loc[a].keystack[loc[a].idx][1]

\* the turn goes on to the next keystack entry only without a response, and
\* ends without a response only at the last entry
MovesOn(a) ==
    /\ pc'[a] = "for" =>
          (loc'[a].idx = loc[a].idx + 1 /\ loc'[a].resp = <<>>)
    /\ (pc'[a] = "ret" /\ loc'[a].resp = <<>>) =>
          loc[a].idx = Len(loc[a].keystack)
    /\ (pc'[a] = "ret" /\ loc'[a].resp # <<>>) => loc'[a].idx = loc[a].idx

\* C21: the keystack entries are consulted front to back and processing
\* stops at the first entry that yields a non-empty response: a step of the
\* loop looks up the entry it is at and changes the rules of no other
\* keyword, the loop moves to the next entry only after an empty response,
\* and once there is a response the call returns it with no further lookup
\* or rotation (so a keyword repeated in the input is rotated once).
C21_StopsAtFirstResponse ==
    [][ \A a \in Agents :
          /\ (pc[a] = "idle" /\ pc'[a] = "for") => loc'[a].idx = 1
          /\ (pc[a] = "for") =>
                /\ loc[a].idx \in 1..Len(loc[a].keystack)
                /\ \A K \in (DOMAIN heap[ref[a]]) \ {Current(a)} :
                      heap'[ref[a]][K] = heap[ref[a]][K]
                /\ MovesOn(a)
          /\ (pc[a] = "while") => MovesOn(a)
          /\ (pc[a] = "ret" /\ loc[a].resp # <<>>) =>
                /\ heap'[ref[a]] = heap[ref[a]]
                /\ log'[a] = log[a]
                /\ out'[a].text = loc[a].resp ]_vars

\* "no no no": the keystack holds NO three times, the first entry answered
\* and NO's list was rotated once
C21_Witness ==
    \E a \in Agents :
       /\ decl[a] = DefaultScript
       /\ pc[a] = "ret"
       /\ loc[a].keystack = << <<<<"NO">>, 0>>, <<<<"NO">>, 0>>, <<<<"NO">>, 0>> >>
       /\ loc[a].idx = 1
       /\ loc[a].resp = NoTemplates[1]
       /\ Head(heap[ref[a]][<<"NO">>].rules[1].reassembly) = NoTemplates[2]

\* the keyword that the next step of the rule engine of agent a looks up
Target(a) ==
    IF pc[a] = "for" THEN Current(a) ELSE upper(Tail(loc[a].resp))

\* the lookup of K with sentence s by a step of agent a moved the head of the
\* first applicable rule's list to its tail, and changed nothing of the script
\* when no rule applies
Selected(a, K, rules, s) ==
    /\ \A i \in DOMAIN rules :
          ( /\ Applies(rules[i], s)
            /\ \A j \in 1..(i - 1) : ~Applies(rules[j], s) )
          => heap'[ref[a]][K].rules[i].reassembly =
                Append(Tail(rules[i].reassembly), Head(rules[i].reassembly))
    /\ (\A i \in DOMAIN rules : ~Applies(rules[i], s)) =>
          heap'[ref[a]] = heap[ref[a]]

\* the rule lists of the keywords of agent a, without those of `but`
RuleLists(S, but) ==
    [K \in {k \in DOMAIN S : "rules" \in DOMAIN S[k]} \ but |-> S[K].rules]

\* C22: every selection of a template rotates it to the tail of its rule's
\* list, whatever the template is (a literal, NEWKEY or a redirection), and a
\* lookup in which no rule matches rotates nothing; the rotation persists:
\* the scan at the start of a turn changes no rule list, and the end of a
\* turn changes none but that of NONE, also when the turn ends in fallback.
C22_RotationPersists ==
    [][ \A a \in Agents :
          /\ ( /\ pc[a] \in {"for", "while"}
               /\ pc'[a] # "idle" ) =>
                \A K \in {Target(a)} :
                   Usable(heap[ref[a]][K].rules) =>
                      Selected(a, K, heap[ref[a]][K].rules, loc'[a].sentence)
          /\ (pc[a] = "ret") =>
                RuleLists(heap'[ref[a]], {KEYWORD_NONE}) =
                RuleLists(heap[ref[a]], {KEYWORD_NONE})
          /\ (pc[a] = "idle" /\ pc'[a] # "idle") =>
                RuleLists(heap'[ref[a]], {}) = RuleLists(heap[ref[a]], {}) ]_vars

\* "k": K's redirection and N's NEWKEY were selected, the turn ended in the
\* fallback, and both are at the tail of their lists after the turn
C22_Witness ==
    \E a \in Agents :
       /\ decl[a] = ChainScript
       /\ pc[a] = "idle"
       /\ out[a].via = "none"
       /\ heap[ref[a]][<<"K">>].rules[1].reassembly = << <<"k1">>, <<"=", "N">> >>
       /\ heap[ref[a]][<<"N">>].rules[1].reassembly = << <<"n1">>, NEWKEY >>

\* the rule whose template redirected the running turn of agent a
Redirecting(a) == heap[ref[a]][loc[a].rule.key].rules[loc[a].rule.i]

\* the sentence of a redirection by `rule`
Rewritten(rule, s) ==
    IF "pre" \in DOMAIN rule THEN re_sub(rule.decomposition, rule.pre, s) ELSE s

\* C23: a rule's `pre` rewrite is applied to the sentence only when the
\* rule's selected template is a redirection: the lookup that selects a
\* template leaves the sentence as it is (so a literal response or NEWKEY
\* comes without a rewrite), and the step that follows a redirection first
\* rewrites the sentence with the redirecting rule's `pre` and matches the
\* target keyword's rules against the rewritten sentence.
C23_PreOnRedirection ==
    [][ \A a \in Agents :
          /\ (pc[a] = "for" /\ pc'[a] # "idle") =>
                loc'[a].sentence = loc[a].sentence
          /\ (pc[a] = "while" /\ pc'[a] # "idle") =>
                \A s \in {Rewritten(Redirecting(a), loc[a].sentence)} :
                   /\ loc'[a].sentence = s
                   /\ \A K \in {Target(a)} :
                         Usable(heap[ref[a]][K].rules) =>
                            FirstMatchWins(a, K, heap[ref[a]][K].rules, s)
          /\ (pc[a] = "ret" /\ pc'[a] # "idle") =>
                loc'[a].sentence = loc[a].sentence ]_vars

\* "w x": W redirected to T with the sentence rewritten to "t x", which T's
\* pattern matches while it does not match "w x"
C23_Witness ==
    \E a \in Agents :
       /\ decl[a] = ChainScript
       /\ pc[a] = "ret"
       /\ loc[a].msg.text = <<"w", " ", "x">>
       /\ loc[a].sentence = <<"t", " ", "x">>
       /\ loc[a].resp = <<"t1", " ", "x">>
       /\ ~Matches(Tail1(<<"t">>), loc[a].msg.text)

\* the lookup of the list `rules` with sentence s selects NEWKEY
SelectsNewkey(rules, s) ==
    \E i \in DOMAIN rules :
       /\ Applies(rules[i], s)
       /\ \A j \in 1..(i - 1) : ~Applies(rules[j], s)
       /\ Head(rules[i].reassembly) = NEWKEY

\* the turn of agent a goes on without a response: to the next entry of the
\* same keystack, or to the fallback after the last one
GoesOn(a) ==
    /\ loc'[a].resp = <<>>
    /\ loc'[a].keystack = loc[a].keystack
    /\ loc'[a].idx = loc[a].idx + 1
    /\ pc'[a] = IF loc[a].idx < Len(loc[a].keystack) THEN "for" ELSE "ret"

\* C24: when a redirection chain reaches a rule whose selected template is
\* NEWKEY, the chain yields no response and the engine continues with the
\* next entry of the original keystack, or with the fallback when none
\* remains; the text NEWKEY is never the response of the rule engine.
C24_NewkeyInChain ==
    /\ \A a \in Agents :
          /\ pc[a] = "ret" => loc[a].resp # NEWKEY
          /\ (out[a].kind = "ok" /\ out[a].via = "engine") => out[a].text # NEWKEY
    /\ [][ \A a \in Agents :
             (pc[a] = "while" /\ pc'[a] # "idle") =>
                \A K \in {Target(a)} :
                   ( /\ Usable(heap[ref[a]][K].rules)
                     /\ SelectsNewkey(heap[ref[a]][K].rules, loc'[a].sentence) )
                   => GoesOn(a) ]_vars

\* "k n": K redirected to N, which selected NEWKEY; the engine went on with
\* the second keystack entry, N, which answered "n1"
C24_Witness ==
    \E a \in Agents :
       /\ decl[a] = ChainScript
       /\ pc[a] = "ret"
       /\ loc[a].keystack = << <<<<"K">>, 0>>, <<<<"N">>, 0>> >>
       /\ loc[a].idx = 2
       /\ loc[a].resp = <<"n1">>
       /\ heap[ref[a]][<<"K">>].rules[1].reassembly = << <<"k1">>, <<"=", "N">> >>

\* C25: scanning changes neither the order of any reassembly list of the
\* agent's script nor the memory stack: the step that scans the input of a
\* turn leaves every keyword's rules as they are, changes nothing at all
\* when no keyword is detected or the head keyword has no memory rules, and
\* otherwise changes only what the recording for the head keyword changes
\* (that keyword's memory rules and an entry appended to the memory stack).
C25_ScanChangesNothing ==
    [][ \A a \in Agents :
          (pc[a] = "idle" /\ pc'[a] # "idle") =>
             /\ RuleLists(heap'[ref[a]], {}) = RuleLists(heap[ref[a]], {})
             /\ DOMAIN heap'[ref[a]] = DOMAIN heap[ref[a]]
             /\ \/ heap'[ref[a]] = heap[ref[a]] /\ memstack'[a] = memstack[a]
                \/ /\ loc'[a].keystack # <<>>
                   /\ "memory" \in DOMAIN heap[ref[a]][loc'[a].keystack[1][1]]
                   /\ \A K \in (DOMAIN heap[ref[a]]) \ {loc'[a].keystack[1][1]} :
                         heap'[ref[a]][K] = heap[ref[a]][K]
                   /\ \/ memstack'[a] = memstack[a]
                      \/ /\ Len(memstack'[a]) = Len(memstack[a]) + 1
                         /\ SubSeq(memstack'[a], 1, Len(memstack[a])) = memstack[a] ]_vars

\* "k n" was scanned into the keystack (K, N) in a turn after one in which
\* K's redirection was selected: K's list is as that turn left it, and no
\* rule was looked up
C25_Witness ==
    \E a \in Agents :
       /\ decl[a] = ChainScript
       /\ pc[a] = "for"
       /\ loc[a].idx = 1
       /\ log[a] = <<>>
       /\ loc[a].keystack = << <<<<"K">>, 0>>, <<<<"N">>, 0>> >>
       /\ heap[ref[a]][<<"K">>].rules[1].reassembly = << <<"k1">>, <<"=", "N">> >>
       /\ memstack[a] = <<>>

\* the symbols of a text that are not in `drop`, in order
RECURSIVE Without(_, _)
Without(text, drop) ==
    IF text = <<>> THEN <<>>
    ELSE (IF Head(text) \in drop THEN <<>> ELSE <<Head(text)>>)
         \o Without(Tail(text), drop)

\* the concatenation of the texts of a list
RECURSIVE Flat(_)
Flat(list) == IF list = <<>> THEN <<>> ELSE Head(list) \o Flat(Tail(list))

\* the tokens split the text at the characters of `white`: no token is empty
\* or holds one of them, a punctuation character is a token of its own, and
\* the tokens are the rest of the text in input order
Tokenized(text, tokens, white) ==
    /\ \A i \in DOMAIN tokens :
          /\ tokens[i] # <<>>
          /\ \A j \in DOMAIN tokens[i] :
                /\ tokens[i][j] \notin white
                /\ tokens[i][j] \in Punctuation => Len(tokens[i]) = 1
    /\ Flat(tokens) = Without(text, white)

\* C26: tokenizing a sentence splits it on whitespace and never emits an
\* empty token; each of . , ? ; ! is a token of its own, and the remaining
\* tokens appear in input order.
C26_SplitsOnWhitespace ==
    \A a \in Agents :
       out[a].kind = "tokens" =>
          Tokenized(out[a].text, out[a].val, {" ", "\t"})

\* the sentences are the pieces of the text between its separators: each
\* stands in the text where the one before it ended, followed by a separator
\* unless it is the last one
RECURSIVE Segmented(_, _)
Segmented(text, sentences) ==
    IF Len(sentences) = 1 THEN text = sentences[1]
    ELSE /\ Len(text) > Len(sentences[1])
         /\ SubSeq(text, 1, Len(sentences[1])) = sentences[1]
         /\ text[Len(sentences[1]) + 1] \in {".", ","}
         /\ Segmented(SubSeq(text, Len(sentences[1]) + 2, Len(text)),
                      Tail(sentences))

\* C27: segmenting a text splits it at every '.' and ',' and drops those
\* separators: a text with s separator characters yields exactly s + 1
\* sentences in input order (at least one, also for the empty text), and no
\* returned sentence contains '.' or ','.
C27_Segmentation ==
    \A a \in Agents :
       out[a].kind = "sentences" =>
          /\ Len(out[a].val) =
                Len(out[a].text) - Len(Without(out[a].text, {".", ","})) + 1
          /\ \A i \in DOMAIN out[a].val :
                Without(out[a].val[i], {".", ","}) = out[a].val[i]
          /\ Segmented(out[a].text, out[a].val)

\* ".a," has two separators and yields three sentences, two of them empty
C27_Witness ==
    \E a \in Agents :
       /\ out[a].kind = "sentences"
       /\ out[a].text = <<".", "a", ",">>
       /\ out[a].val = << <<>>, <<"a">>, <<>> >>

\* the positions of the tokens that are keywords with rules, and those of
\* them whose rank is the greatest
DetectedAt(S, toks) == { n \in DOMAIN toks : WithRules(S, toks[n]) }
TopAt(S, toks) ==
    { n \in DetectedAt(S, toks) :
         \A m \in DetectedAt(S, toks) :
            EntryOf(S, toks[m])[2] <= EntryOf(S, toks[n])[2] }

\* the head of keystack ks has the greatest rank of ks and is the entry of
\* the first token among those of the greatest rank
HeadIsTop(S, toks, ks) ==
    /\ \A i \in DOMAIN ks : ks[i][2] <= ks[1][2]
    /\ \E n \in TopAt(S, toks) :
          /\ \A m \in TopAt(S, toks) : n <= m
          /\ ks[1] = EntryOf(S, toks[n])

\* C28: after a scan that yields a non-empty keystack, the head entry has the
\* maximum rank of all entries, and among the entries of that rank it is the
\* one detected first.
C28_HeadHasMaxRank ==
    \A a \in Agents :
       ( /\ pc[a] # "idle"
         /\ loc[a].keystack # <<>>
         /\ Len(get_sentences(loc[a].msg.text)) = 1 ) =>
          HeadIsTop(heap[ref[a]], get_tokens(loc[a].msg.text), loc[a].keystack)

\* "g h e": G and H have the greatest rank and G, detected first, is the head
C28_Witness ==
    \E a \in Agents :
       /\ decl[a] = RankScript
       /\ pc[a] = "for"
       /\ loc[a].keystack = << <<<<"G">>, 2>>, <<<<"H">>, 2>>, <<<<"E">>, 0>> >>

\* the rest of a keystack need not be in descending rank order: "g e f"
\* leaves E, of rank 0, before F, of rank 1
C28_RestUnsorted ==
    \E a \in Agents :
       /\ decl[a] = RankScript
       /\ pc[a] = "for"
       /\ loc[a].keystack = << <<<<"G">>, 2>>, <<<<"E">>, 0>>, <<<<"F">>, 1>> >>

\* C29: whether the fallback uses the NONE keyword's rules is decided from
\* the agent's own script, not from the module-level script: a fallback with
\* an empty memory stack selects a template of the agent's NONE rules when
\* the agent's script has the NONE keyword, and returns the empty response,
\* touching nothing, when it has not.
C29_OwnScriptDecides ==
    [][ \A a \in Agents :
          (pc[a] = "ret" /\ loc[a].resp = <<>> /\ memstack[a] = <<>>) =>
             IF KEYWORD_NONE \in DOMAIN heap[ref[a]]
             THEN /\ out'[a] = Ok(Head(heap[ref[a]][KEYWORD_NONE]
                                          .rules[1].reassembly),
                                  "none", loc[a].msg)
                  /\ heap'[ref[a]][KEYWORD_NONE].rules[1].reassembly =
                        Rotate(heap[ref[a]][KEYWORD_NONE].rules[1].reassembly)
             ELSE /\ out'[a] = Ok(<<>>, "none", loc[a].msg)
                  /\ heap'[ref[a]] = heap[ref[a]] ]_vars

\* C30: a start call (empty or None input) consults no scanner and changes
\* nothing except the rotation of the START keyword's rule: it is one step
\* from idle to idle that leaves no keystack and no sentence, returns the
\* head of START's list and moves it to the tail, and the memory stack and
\* every other keyword of the script are the same after the call as before.
C30_StartChangesOnlyStart ==
    [][ \A a \in Agents :
          (pc[a] = "idle" /\ pc'[a] = "idle") =>
             /\ memstack'[a] = memstack[a]
             /\ loc'[a] = IdleLoc
             /\ \A K \in (DOMAIN heap[ref[a]]) \ {KEYWORD_START} :
                   heap'[ref[a]][K] = heap[ref[a]][K]
             /\ out'[a].kind = "ok" =>
                   /\ out'[a].via = "start"
                   /\ out'[a].text =
                         Head(heap[ref[a]][KEYWORD_START].rules[1].reassembly)
                   /\ heap'[ref[a]][KEYWORD_START] =
                         [heap[ref[a]][KEYWORD_START] EXCEPT
                             !.rules[1].reassembly = Append(Tail(@), Head(@))] ]_vars

\* a start call in the middle of a session: the memory stack holds an entry,
\* P's list is rotated, and the call returned START's second template
C30_Witness ==
    \E a \in Agents :
       /\ decl[a] = EngineScript
       /\ pc[a] = "idle"
       /\ out[a].via = "start"
       /\ out[a].text = <<"Welcome">>
       /\ memstack[a] # <<>>
       /\ heap[ref[a]][<<"P">>].rules[1].reassembly = << <<"p2">>, <<"p1">> >>

\* every agent but a is as it was
OthersUntouched(a) ==
    \A b \in Agents \ {a} :
       /\ pc'[b] = pc[b] /\ out'[b] = out[b] /\ loc'[b] = loc[b]
       /\ heap'[ref[b]] = heap[ref[b]] /\ memstack'[b] = memstack[b]

\* C31: turn-taking of MultiAgentSession with n agents: the k-th call of
\* next() (k = 0, 1, 2, ...) invokes agent number k mod n and no other; the
\* first call passes the empty message, every later call the message
\* returned by the previous call; and next() returns that agent's name with
\* its response.
C31_TurnTaking ==
    [][ /\ (session.at = "idle" /\ session'.at = "call") =>
             /\ session'.callee = (session.k % NumAgents) + 1
             /\ session'.arg =
                   IF session.k = 0 THEN <<>>
                   ELSE out[((session.k - 1) % NumAgents) + 1].text
             /\ pc'[session'.callee] # "idle" =>
                   loc'[session'.callee].msg = Msg(session'.arg)
             /\ pc'[session'.callee] = "idle" =>
                   (session'.arg = <<>> /\ out'[session'.callee].via = "start")
             /\ OthersUntouched(session'.callee)
        /\ (session.at = "call" /\ session'.at = "idle") =>
             /\ out[session.callee].kind = "ok"
             /\ session'.result = <<session.callee, out[session.callee].text>>
             /\ session'.message = out[session.callee].text ]_vars

\* three agents: the fourth call of next() went to the first agent with the
\* response of the third agent, and returned the first agent's response
C31_Witness ==
    /\ NumAgents = 3
    /\ session.k = 4
    /\ session.at = "idle"
    /\ session.callee = 1
    /\ session.arg = out[3].text /\ session.arg # <<>>
    /\ session.result = <<1, out[1].text>>
    /\ session.activeAgent = 1

\* list `now` is list `declared` rotated by k places
RotatedBy(declared, now, k) ==
    /\ Len(now) = Len(declared)
    /\ \A i \in 1..Len(declared) :
          now[i] = declared[((i - 1 + k) % Len(declared)) + 1]

IsRotation(declared, now) ==
    IF declared = <<>> THEN now = <<>>
    ELSE \E k \in 0..(Len(declared) - 1) : RotatedBy(declared, now, k)

\* C32: after any sequence of calls on an agent, every reassembly list (of
\* rules and of memory rules) is a cyclic rotation of its declared order: the
\* script has the same keywords and rules as declared, and each list has its
\* declared length and cyclic order, no template added, lost or duplicated.
C32_ListsAreRotations ==
    \A a \in Agents :
       /\ DOMAIN heap[ref[a]] = DOMAIN decl[a]
       /\ RuleIds(heap[ref[a]]) = RuleIds(decl[a])
       /\ \A id \in RuleIds(decl[a]) :
             IsRotation(RuleAt(decl[a], id).reassembly,
                        RuleAt(heap[ref[a]], id).reassembly)

\* NO's four templates after two selections: the third is at the head and
\* the first two follow the fourth
C32_Witness ==
    \E a \in Agents :
       /\ decl[a] = DefaultScript
       /\ pc[a] = "idle"
       /\ heap[ref[a]][<<"NO">>].rules[1].reassembly =
             << NoTemplates[3], NoTemplates[4], NoTemplates[1], NoTemplates[2] >>

\* the redirections of script S are acyclic and their targets all exist
Acyclic(S) ==
    \A K \in DOMAIN S :
       /\ K \notin ReachedFrom(S, K)
       /\ \A T \in RedirectsOf(S, K) : T \in DOMAIN S /\ "rules" \in DOMAIN S[T]

\* the greatest of a set of naturals (0 for the empty set)
Max(ns) == IF ns = {} THEN 0 ELSE CHOOSE n \in ns : \A m \in ns : m <= n

\* the length of the longest redirection path of at most n redirections that
\* starts at keyword K
RECURSIVE LongestIn(_, _, _)
LongestIn(S, K, n) ==
    IF n = 0 THEN 0
    ELSE Max({ 1 + LongestIn(S, T, n - 1) : T \in RedirectsOf(S, K) })

Longest(S, K) == LongestIn(S, K, Cardinality(DOMAIN S))

\* rule lookups that the entries i..Len(ks) of keystack ks may still trigger
RECURSIVE Budget(_, _, _)
Budget(S, ks, i) ==
    IF i > Len(ks) THEN 0
    ELSE Longest(S, ks[i][1]) + 1 + Budget(S, ks, i + 1)

\* a bound on the steps that the call of agent a with locals l at position p
\* has left: the lookups still possible, and the return
StepsLeft(S, p, l) ==
    IF p = "idle" THEN 0
    ELSE IF p = "ret" THEN 1
    ELSE IF p = "for" THEN Budget(S, l.keystack, l.idx) + 1
    ELSE Longest(S, upper(Tail(l.resp))) + 1
         + Budget(S, l.keystack, l.idx + 1) + 1

\* the lookups that the running call of agent a made at keystack position i
LookupsAt(a, i) == { j \in DOMAIN log[a] : log[a][j].at = i }

\* the running call of agent a is at a position that has a next step: an
\* entry of the keystack, a pending redirection of a rule, or the return
HasStep(a) ==
    /\ pc[a] \in {"for", "while", "ret"}
    /\ pc[a] = "for" => loc[a].idx \in DOMAIN loc[a].keystack
    /\ pc[a] = "while" =>
          /\ startswith_eq(loc[a].resp)
          /\ loc[a].rule.key \in DOMAIN heap[ref[a]]
          /\ loc[a].rule.i \in DOMAIN heap[ref[a]][loc[a].rule.key].rules

\* C33: for a script whose redirection graph is acyclic and whose redirection
\* targets all exist, every call terminates: a running call always has a
\* next step, and each step lowers a bound on the steps it has left; and in
\* one turn a keystack entry triggers at most as many rule lookups as the
\* longest redirection path starting at its keyword plus one.
C33_AcyclicTerminates ==
    /\ \A a \in Agents :
          (Acyclic(decl[a]) /\ pc[a] # "idle") =>
             /\ HasStep(a)
             /\ \A i \in DOMAIN loc[a].keystack :
                   Cardinality(LookupsAt(a, i)) <=
                      Longest(decl[a], loc[a].keystack[i][1]) + 1
    /\ [][ \A a \in Agents :
             (Acyclic(decl[a]) /\ pc[a] # "idle") =>
                StepsLeft(decl[a], pc'[a], loc'[a]) <
                StepsLeft(decl[a], pc[a], loc[a]) ]_vars

\* "a": the lookups of A, B and C, three for the one keystack entry A, whose
\* longest redirection path has two redirections
C33_Witness ==
    \E a \in Agents :
       /\ decl[a] = PathScript
       /\ pc[a] = "ret"
       /\ loc[a].keystack = << <<<<"A">>, 0>> >>
       /\ Cardinality(LookupsAt(a, 1)) = 3
       /\ Longest(decl[a], <<"A">>) = 2
       /\ loc[a].resp = <<"c1">>

\* the turn of agent a began with an empty memory stack and recorded the one
\* response that the stack holds
JustRecorded(a) ==
    /\ Len(memstack[a]) = 1
    /\ log[a] # <<>>
    /\ log[a][1].field = "memory" /\ log[a][1].i > 0

\* C34: if the memory stack is empty at the start of a turn, the head
\* keyword's memory rules record a response in that turn, and the rule
\* engine then yields no response, the fallback of the same turn returns
\* exactly the response just recorded and the memory stack is empty again at
\* the end of the turn.
C34_RecordedThenReturned ==
    [][ \A a \in Agents :
          /\ (pc[a] = "idle" /\ memstack[a] = <<>> /\ memstack'[a] # <<>>) =>
                (pc'[a] = "for" /\ JustRecorded(a)')
          /\ (pc[a] \in {"for", "while"}) => memstack'[a] = memstack[a]
          /\ (pc[a] = "ret" /\ loc[a].resp = <<>> /\ JustRecorded(a)) =>
                /\ out'[a] = Ok(memstack[a][1], "memory", loc[a].msg)
                /\ memstack'[a] = <<>>
                /\ pc'[a] = "idle" ]_vars

\* "m x": M recorded "Earlier m x" and yielded NEWKEY; the turn returned the
\* record and left the memory stack empty
C34_Witness ==
    \E a \in Agents :
       /\ decl[a] = TurnScript
       /\ pc[a] = "idle"
       /\ out[a] = Ok(<<"Earlier", " ", "m", " ", "x">>, "memory",
                      Msg(<<"m", " ", "x">>))
       /\ memstack[a] = <<>>
       /\ log[a][1].field = "memory"

\* the sentence that the scanner produced for the running turn of agent a
Scanned(a) ==
    ScanSentences(heap[ref[a]], get_sentences(loc[a].msg.text)).altered_sentence

\* C35: once a `pre` rewrite has been applied during one keystack entry's
\* redirection chain, the rewritten sentence stays in force for the rest of
\* the turn: when the chain yields no response, the step leaves the rewritten
\* sentence in place, no later step puts the scanner's sentence back, and the
\* following keystack entries are matched against the rewritten sentence.
C35_RewriteStaysInForce ==
    [][ \A a \in Agents :
          /\ (pc[a] = "while" /\ pc'[a] # "idle") =>
                loc'[a].sentence = Rewritten(Redirecting(a), loc[a].sentence)
          /\ (pc[a] \in {"for", "ret"} /\ pc'[a] # "idle") =>
                loc'[a].sentence = loc[a].sentence
          /\ (pc[a] = "for" /\ pc'[a] # "idle") =>
                \A K \in {Current(a)} :
                   Usable(heap[ref[a]][K].rules) =>
                      FirstMatchWins(a, K, heap[ref[a]][K].rules,
                                     loc[a].sentence) ]_vars

\* "w t x": W rewrote the sentence to "u t x" and its chain ended in NEWKEY;
\* the second entry, T, answered from the rewritten sentence, which its
\* pattern matches while it does not match the scanner's sentence
C35_Witness ==
    \E a \in Agents :
       /\ decl[a] = TurnScript
       /\ pc[a] = "ret"
       /\ loc[a].idx = 2
       /\ loc[a].keystack = << <<<<"W">>, 0>>, <<<<"T">>, 0>> >>
       /\ loc[a].sentence = <<"u", " ", "t", " ", "x">>
       /\ Scanned(a) = <<"w", " ", "t", " ", "x">>
       /\ ~Matches(Tail1(<<"u">>), Scanned(a))
       /\ loc[a].resp = <<"t1", " ", "t", " ", "x">>

\* the tokens of the sentences of a text
TokensOf(text) ==
    UNION { { get_tokens(get_sentences(text)[i])[j] :
                j \in DOMAIN get_tokens(get_sentences(text)[i]) } :
            i \in DOMAIN get_sentences(text) }

\* the input of the running turn of agent a holds the token NONE
InputHasNone(a) ==
    \E t \in TokensOf(loc[a].msg.text) : upper(t) = KEYWORD_NONE

\* the step rotates a list of the rules of NONE
NoneRotates(a) ==
    /\ KEYWORD_NONE \in DOMAIN heap[ref[a]]
    /\ heap'[ref[a]][KEYWORD_NONE].rules # heap[ref[a]][KEYWORD_NONE].rules

\* the step is the fallback of a turn; `served` tells whether the memory
\* stack holds a response for it
FallbackStep(a, served) ==
    /\ pc[a] = "ret" /\ loc[a].resp = <<>>
    /\ (memstack[a] # <<>>) = served

\* a fallback served from the memory stack rotates no list
MemoryFallbackRotatesNothing ==
    \A a \in Agents :
       FallbackStep(a, TRUE) =>
          /\ heap'[ref[a]] = heap[ref[a]]
          /\ out'[a] = Ok(memstack[a][1], "memory", loc[a].msg)

\* C36 as stated: when a fallback is served from the memory stack, the NONE
\* keyword's reassembly list and every other list are left unrotated by the
\* fallback step; the NONE list rotates only in turns whose fallback finds
\* the memory stack empty or whose input contains the token NONE itself.
C36_NoneRotatesOnlyThen ==
    [][ /\ MemoryFallbackRotatesNothing
        /\ \A a \in Agents :
              NoneRotates(a) =>
                 (FallbackStep(a, FALSE) \/ InputHasNone(a)) ]_vars

\* C36 amended: a fallback served from the memory stack rotates no list; the
\* NONE list rotates only in the fallback step of a turn that finds the memory
\* stack empty and in a lookup of NONE by the rule engine, which is made for
\* a keystack entry NONE (the input holds the token NONE) or for a template
\* that redirects to NONE.
C36_NoneRotatesOnLookup ==
    [][ /\ MemoryFallbackRotatesNothing
        /\ \A a \in Agents :
              NoneRotates(a) =>
                 \/ FallbackStep(a, FALSE)
                 \/ pc[a] = "for" /\ Current(a) = KEYWORD_NONE /\ InputHasNone(a)
                 \/ pc[a] = "while" /\ Target(a) = KEYWORD_NONE ]_vars

\* a fallback was served from the memory stack in a session in which NONE's
\* list had been rotated before: the list is as that rotation left it
C36_Witness ==
    \E a \in Agents :
       /\ decl[a] = TurnScript
       /\ pc[a] = "idle"
       /\ out[a].via = "memory"
       /\ heap[ref[a]][KEYWORD_NONE].rules[1].reassembly =
             << <<"I", " ", "see">>, <<"Go", " ", "on">> >>

\* C37: the reserved NONE keyword is an ordinary scannable keyword: an input
\* whose token uppercases to NONE puts NONE on the keystack; when the rule
\* engine reaches that entry it answers from NONE's rule, selecting and
\* rotating the head template, and the call returns the response with the
\* memory stack as it was, also when it is not empty.
C37_NoneIsScannable ==
    [][ \A a \in Agents :
          /\ ( /\ pc[a] = "idle" /\ pc'[a] # "idle"
               /\ Len(get_sentences(loc'[a].msg.text)) = 1
               /\ InputHasNone(a)'
               /\ "rules" \in DOMAIN heap[ref[a]][KEYWORD_NONE] ) =>
                \E i \in DOMAIN loc'[a].keystack :
                   loc'[a].keystack[i][1] = KEYWORD_NONE
          /\ ( /\ pc[a] = "for" /\ Current(a) = KEYWORD_NONE
               /\ LiteralRules(heap[ref[a]], KEYWORD_NONE) ) =>
                /\ pc'[a] = "ret"
                /\ loc'[a].resp =
                      Head(heap[ref[a]][KEYWORD_NONE].rules[1].reassembly)
                /\ heap'[ref[a]][KEYWORD_NONE].rules[1].reassembly =
                      Rotate(heap[ref[a]][KEYWORD_NONE].rules[1].reassembly)
                /\ memstack'[a] = memstack[a]
          /\ (pc[a] = "ret" /\ loc[a].resp # <<>>) =>
                /\ out'[a] = Ok(loc[a].resp, "engine", loc[a].msg)
                /\ memstack'[a] = memstack[a] ]_vars

\* "none" with a response in the memory stack: the rule engine answered from
\* NONE's rule and the memory stack still holds the response
C37_Witness ==
    \E a \in Agents :
       /\ decl[a] = TurnScript
       /\ pc[a] = "idle"
       /\ out[a].kind = "ok" /\ out[a].via = "engine"
       /\ log[a] # <<>> /\ log[a][Len(log[a])].key = KEYWORD_NONE
       /\ log[a][Len(log[a])].at = 1
       /\ memstack[a] # <<>>

====
